---- MODULE Spec2Model ----
(***************************************************************************)
(* PSPSchool Student Management System: the SQLite store (db.cpp), the     *)
(* in-memory DataStore mirror (services.hpp, helpers.cpp) and the menu     *)
(* loop of main() that keeps the two in step (PSPSchool-StudentMS.cpp).    *)
(***************************************************************************)
EXTENDS Integers, Sequences, FiniteSets, TLC

(***************************************************************************)
(* Bounds of the model.                                                    *)
(***************************************************************************)
\* menu actions (or direct calls) explored over all runs
MaxOps == 2
\* launches of the program on the same school.db
MaxRuns == 2

(***************************************************************************)
(* Values.  A double is a record: nan says whether it is a NaN, v is its   *)
(* value otherwise.                                                        *)
(***************************************************************************)
D(n) == [nan |-> FALSE, v |-> n]
NaN == [nan |-> TRUE, v |-> 0]

\* the comparisons of IEEE doubles: every comparison with a NaN is false
DLess(a, b) == ~a.nan /\ ~b.nan /\ a.v < b.v
DGreater(a, b) == ~a.nan /\ ~b.nan /\ a.v > b.v

\* mark range of the program: prompt_number_or_back(..., 0, 100)
MarkLo == D(0)
MarkHi == D(100)

Student(r, n, a, c) == [roll_no |-> r, name |-> n, address |-> a, contact |-> c]
Course(c, t, d, te) == [code |-> c, title |-> t, description |-> d, teacher |-> te]
Grade(r, c, i, f) == [roll_no |-> r, course_code |-> c, internal_mark |-> i, final_mark |-> f]

\* the keys of the rows of a vector or a table
RollsOf(students) == {students[i].roll_no : i \in 1..Len(students)}
CodesOf(courses) == {courses[i].code : i \in 1..Len(courses)}
PairsOf(grades) == {<<grades[i].roll_no, grades[i].course_code>> : i \in 1..Len(grades)}
RowsOf(seq) == {seq[i] : i \in 1..Len(seq)}

(***************************************************************************)
(* Seed rows of db_init_and_seed.                                          *)
(***************************************************************************)
seed_students ==
    << Student("S001", "Ava", "12 Oak St", "021-111"),
       Student("S002", "Leo", "34 Pine Ave", "021-222"),
       Student("S003", "Mia", "56 Willow Rd", "021-333") >>

seed_courses ==
    << Course("MTH101", "Maths", "Numbers and algebra", "Mr. King"),
       Course("SCI101", "Science", "Intro science", "Ms. Ray"),
       Course("ENG101", "English", "Reading & writing", "Mrs. Lee") >>

seed_grades ==
    << Grade("S001", "MTH101", D(75), D(88)),
       Grade("S001", "SCI101", D(62), D(70)),
       Grade("S002", "ENG101", D(80), D(92)),
       Grade("S003", "MTH101", D(55), D(60)) >>

(***************************************************************************)
(* The store.  school.db holds three rowid tables; a SELECT without ORDER  *)
(* BY scans them in rowid order, and a new row gets the largest rowid, so  *)
(* each table is the sequence of its rows in insertion order.  A           *)
(* connection is [handle, foreign_keys].  Every store function takes the   *)
(* connection, the file, its arguments and io, the engine's verdict on the *)
(* statement (FALSE: prepare or step ended with an I/O or busy error), and *)
(* returns [ok, file].  A statement is atomic: when it fails the file is   *)
(* unchanged.                                                              *)
(***************************************************************************)
NoFile == [tables |-> FALSE, students |-> <<>>, courses |-> <<>>, grades |-> <<>>]

Result(ok, f) == [ok |-> ok, file |-> f]

\* db.cpp: INSERT INTO students ... (roll_no TEXT PRIMARY KEY)
db_add_student(db, file, s, io) ==
    IF ~io \/ ~file.tables \/ s.roll_no \in RollsOf(file.students)
    THEN Result(FALSE, file)
    ELSE Result(TRUE, [file EXCEPT !.students = Append(@, s)])

\* db.cpp: INSERT INTO courses ... (code TEXT PRIMARY KEY)
db_add_course(db, file, c, io) ==
    IF ~io \/ ~file.tables \/ c.code \in CodesOf(file.courses)
    THEN Result(FALSE, file)
    ELSE Result(TRUE, [file EXCEPT !.courses = Append(@, c)])

\* db_enroll on a grades table without its PRIMARY KEY (roll_no, course_code)
db_enroll_no_pk(db, file, roll_no, course_code, io) ==
    IF \/ ~io
       \/ ~file.tables
       \/ db.foreign_keys /\ roll_no \notin RollsOf(file.students)
       \/ db.foreign_keys /\ course_code \notin CodesOf(file.courses)
    THEN Result(FALSE, file)
    ELSE Result(TRUE, [file EXCEPT !.grades =
                          Append(@, Grade(roll_no, course_code, D(0), D(0)))])

\* db_enroll whose INSERT gives the new row full marks
db_enroll_full_marks(db, file, roll_no, course_code, io) ==
    IF \/ ~io
       \/ ~file.tables
       \/ <<roll_no, course_code>> \in PairsOf(file.grades)
       \/ db.foreign_keys /\ roll_no \notin RollsOf(file.students)
       \/ db.foreign_keys /\ course_code \notin CodesOf(file.courses)
    THEN Result(FALSE, file)
    ELSE Result(TRUE, [file EXCEPT !.grades =
                          Append(@, Grade(roll_no, course_code, D(100), D(100)))])

\* db.cpp: INSERT INTO grades ... VALUES(?,?,0,0): PRIMARY KEY (roll_no,
\* course_code), and with foreign_keys ON both parents must exist
db_enroll(db, file, roll_no, course_code, io) ==
    IF \/ ~io
       \/ ~file.tables
       \/ <<roll_no, course_code>> \in PairsOf(file.grades)
       \/ db.foreign_keys /\ roll_no \notin RollsOf(file.students)
       \/ db.foreign_keys /\ course_code \notin CodesOf(file.courses)
    THEN Result(FALSE, file)
    ELSE Result(TRUE, [file EXCEPT !.grades =
                          Append(@, Grade(roll_no, course_code, D(0), D(0)))])

\* sqlite3_bind_double binds a NaN as NULL
BindsNull(d) == d.nan

\* db_enter_marks that returns rc == SQLITE_DONE and does not look at
\* sqlite3_changes
db_enter_marks_no_changes(db, file, roll_no, course_code, internal_mark, final_mark, io) ==
    LET hit == <<roll_no, course_code>> \in PairsOf(file.grades)
        constraint == hit /\ (BindsNull(internal_mark) \/ BindsNull(final_mark))
        upd(g) == IF g.roll_no = roll_no /\ g.course_code = course_code
                  THEN [g EXCEPT !.internal_mark = internal_mark,
                                 !.final_mark = final_mark]
                  ELSE g
    IN  IF ~io \/ ~file.tables \/ constraint
        THEN Result(FALSE, file)
        ELSE Result(TRUE, [file EXCEPT !.grades =
                              [i \in 1..Len(@) |-> upd(@[i])]])

\* db.cpp: UPDATE grades SET internal_mark=?, final_mark=? WHERE ...; the
\* columns are REAL NOT NULL, so a NULL value makes the step fail when a row
\* matches; ok is rc == SQLITE_DONE && sqlite3_changes(db) > 0
db_enter_marks(db, file, roll_no, course_code, internal_mark, final_mark, io) ==
    LET hit == <<roll_no, course_code>> \in PairsOf(file.grades)
        constraint == hit /\ (BindsNull(internal_mark) \/ BindsNull(final_mark))
        upd(g) == IF g.roll_no = roll_no /\ g.course_code = course_code
                  THEN [g EXCEPT !.internal_mark = internal_mark,
                                 !.final_mark = final_mark]
                  ELSE g
    IN  IF ~io \/ ~file.tables \/ constraint \/ ~hit
        THEN Result(FALSE, file)
        ELSE Result(TRUE, [file EXCEPT !.grades =
                              [i \in 1..Len(@) |-> upd(@[i])]])

\* db_update_student whose UPDATE has no WHERE clause
db_update_student_no_where(db, file, s, io) ==
    IF ~io \/ ~file.tables \/ Len(file.students) = 0
    THEN Result(FALSE, file)
    ELSE Result(TRUE, [file EXCEPT !.students =
            [i \in 1..Len(@) |-> [s EXCEPT !.roll_no = file.students[i].roll_no]]])

\* db.cpp: UPDATE students SET name=?, address=?, contact=? WHERE roll_no=?
db_update_student(db, file, s, io) ==
    IF ~io \/ ~file.tables \/ s.roll_no \notin RollsOf(file.students)
    THEN Result(FALSE, file)
    ELSE Result(TRUE, [file EXCEPT !.students =
            [i \in 1..Len(@) |-> IF @[i].roll_no = s.roll_no THEN s ELSE @[i]]])

\* db_update_course that counts a row only when a column gets a new value
db_update_course_if_new(db, file, c, io) ==
    IF ~io \/ ~file.tables \/ c.code \notin CodesOf(file.courses)
          \/ c \in RowsOf(file.courses)
    THEN Result(FALSE, file)
    ELSE Result(TRUE, [file EXCEPT !.courses =
            [i \in 1..Len(@) |-> IF @[i].code = c.code THEN c ELSE @[i]]])

\* db.cpp: UPDATE courses SET title=?, description=?, teacher=? WHERE code=?
db_update_course(db, file, c, io) ==
    IF ~io \/ ~file.tables \/ c.code \notin CodesOf(file.courses)
    THEN Result(FALSE, file)
    ELSE Result(TRUE, [file EXCEPT !.courses =
            [i \in 1..Len(@) |-> IF @[i].code = c.code THEN c ELSE @[i]]])

\* a grades table whose roll_no reference has no ON DELETE CASCADE
CascadeStudent_none(db, grades, roll) == grades

\* ON DELETE CASCADE of grades.roll_no, in force when foreign_keys is ON
CascadeStudent(db, grades, roll) ==
    IF db.foreign_keys
    THEN SelectSeq(grades, LAMBDA g : g.roll_no # roll)
    ELSE grades

\* ON DELETE CASCADE of grades.course_code, in force when foreign_keys is ON
CascadeCourse(db, grades, code) ==
    IF db.foreign_keys
    THEN SelectSeq(grades, LAMBDA g : g.course_code # code)
    ELSE grades

\* db_delete_student that does not look at sqlite3_changes
db_delete_student_unchecked(db, file, roll, io) ==
    IF ~io \/ ~file.tables
    THEN Result(FALSE, file)
    ELSE Result(TRUE, [file EXCEPT
            !.students = SelectSeq(@, LAMBDA s : s.roll_no # roll),
            !.grades = CascadeStudent(db, @, roll)])

\* db.cpp: DELETE FROM students WHERE roll_no=?
db_delete_student(db, file, roll, io) ==
    IF ~io \/ ~file.tables \/ roll \notin RollsOf(file.students)
    THEN Result(FALSE, file)
    ELSE Result(TRUE, [file EXCEPT
            !.students = SelectSeq(@, LAMBDA s : s.roll_no # roll),
            !.grades = CascadeStudent(db, @, roll)])

\* db.cpp: DELETE FROM courses WHERE code=?
db_delete_course(db, file, code, io) ==
    IF ~io \/ ~file.tables \/ code \notin CodesOf(file.courses)
    THEN Result(FALSE, file)
    ELSE Result(TRUE, [file EXCEPT
            !.courses = SelectSeq(@, LAMBDA c : c.code # code),
            !.grades = CascadeCourse(db, @, code)])

\* db.cpp: DELETE FROM grades WHERE roll_no=? AND course_code=?
db_delete_enrollment(db, file, roll, code, io) ==
    IF ~io \/ ~file.tables \/ <<roll, code>> \notin PairsOf(file.grades)
    THEN Result(FALSE, file)
    ELSE Result(TRUE, [file EXCEPT !.grades =
            SelectSeq(@, LAMBDA g : ~(g.roll_no = roll /\ g.course_code = code))])

(***************************************************************************)
(* Opening, closing, initialising and loading.  fault names the one engine *)
(* call of a launch that fails for a reason outside the program (no        *)
(* memory, file cannot be opened, disk or lock error), or "none".          *)
(***************************************************************************)
NullDb == [handle |-> "null", foreign_keys |-> FALSE]

\* db_open without PRAGMA foreign_keys = ON
db_open_no_pragma(fault) ==
    CASE fault = "open_nomem" ->
            [ok |-> FALSE, db |-> [handle |-> "null", foreign_keys |-> FALSE]]
      [] fault = "open_cantopen" ->
            [ok |-> FALSE, db |-> [handle |-> "failed", foreign_keys |-> FALSE]]
      [] OTHER ->
            [ok |-> TRUE, db |-> [handle |-> "open", foreign_keys |-> FALSE]]

\* db.cpp: db_open.  sqlite3_open leaves a handle that still has to be
\* closed when it fails, except when it could not allocate one; the PRAGMA's
\* result is not looked at.
db_open(fault) ==
    CASE fault = "open_nomem" ->
            [ok |-> FALSE, db |-> [handle |-> "null", foreign_keys |-> FALSE]]
      [] fault = "open_cantopen" ->
            [ok |-> FALSE, db |-> [handle |-> "failed", foreign_keys |-> FALSE]]
      [] OTHER ->
            [ok |-> TRUE, db |-> [handle |-> "open", foreign_keys |-> TRUE]]

\* what sqlite3_close may do to a connection that was released before: the
\* pointer dangles and the call is undefined; the memory may still look like
\* a closed connection, or be released a second time
ReleasedOutcomes == {"closed", "freed_twice"}

\* db.cpp: db_close: if (db) sqlite3_close(db).  The pointer is passed by
\* value and stays as it was; ub is what the build makes of a second close.
db_close(db, ub) ==
    IF db.handle = "null" THEN db
    ELSE IF db.handle \in {"closed", "freed_twice"} THEN [db EXCEPT !.handle = ub]
    ELSE [db EXCEPT !.handle = "closed"]

\* table_empty that never steps the SELECT
table_empty_unstepped(rows, io) == TRUE

\* db.cpp: the table_empty lambda; a prepare that fails leaves empty = true
table_empty(rows, io) == ~io \/ Len(rows) = 0

\* a multi-row INSERT into students or courses: one statement, all rows or none
InsertRows(rows, keys, new, newkeys, io) ==
    IF ~io \/ keys \cap newkeys # {}
    THEN [ok |-> FALSE, rows |-> rows]
    ELSE [ok |-> TRUE, rows |-> rows \o new]

\* the multi-row INSERT into grades: primary key and, with foreign_keys ON,
\* both parents of every new row
InsertGrades(db, file, new, io) ==
    IF \/ ~io
       \/ PairsOf(file.grades) \cap PairsOf(new) # {}
       \/ db.foreign_keys /\ \E i \in 1..Len(new) :
              \/ new[i].roll_no \notin RollsOf(file.students)
              \/ new[i].course_code \notin CodesOf(file.courses)
    THEN [ok |-> FALSE, rows |-> file.grades]
    ELSE [ok |-> TRUE, rows |-> file.grades \o new]

\* db_init_and_seed that returns true without creating or seeding anything
db_init_and_seed_nothing(db, file, fault) == Result(TRUE, file)

\* db.cpp: db_init_and_seed
db_init_and_seed(db, file, fault) ==
    IF fault = "ddl" THEN Result(FALSE, file)
    ELSE
    LET f0 == [file EXCEPT !.tables = TRUE]
        s  == IF table_empty(f0.students, fault # "empty_students")
              THEN InsertRows(f0.students, RollsOf(f0.students), seed_students,
                              RollsOf(seed_students), fault # "seed_students")
              ELSE [ok |-> TRUE, rows |-> f0.students]
        f1 == [f0 EXCEPT !.students = s.rows]
        c  == IF table_empty(f1.courses, fault # "empty_courses")
              THEN InsertRows(f1.courses, CodesOf(f1.courses), seed_courses,
                              CodesOf(seed_courses), fault # "seed_courses")
              ELSE [ok |-> TRUE, rows |-> f1.courses]
        f2 == [f1 EXCEPT !.courses = c.rows]
        g  == IF table_empty(f2.grades, fault # "empty_grades")
              THEN InsertGrades(db, f2, seed_grades, fault # "seed_grades")
              ELSE [ok |-> TRUE, rows |-> f2.grades]
        f3 == [f2 EXCEPT !.grades = g.rows]
    IN  IF ~s.ok THEN Result(FALSE, f0)
        ELSE IF ~c.ok THEN Result(FALSE, f1)
        ELSE IF ~g.ok THEN Result(FALSE, f2)
        ELSE Result(TRUE, f3)

EmptyStore == [all_students |-> <<>>, all_courses |-> <<>>, all_grades |-> <<>>]

\* the faults that end one table's scan in db_load_all: sqlite3_step
\* returns an error where it would return SQLITE_ROW
StepFaults == {"step_students", "step_courses", "step_grades"}

\* db.cpp: db_load_all: clears the three vectors, then fills them table by
\* table; before is what the vectors held.  A prepare that fails returns
\* false with what was loaded so far.  The scan of a table is
\* while (sqlite3_step(st) == SQLITE_ROW): a step that fails ends it like
\* the end of the table, here at the first row, and true is returned.
db_load_all(db, file, fault, before) ==
    LET students == IF fault = "step_students" THEN <<>> ELSE file.students
        courses == IF fault = "step_courses" THEN <<>> ELSE file.courses
        grades == IF fault = "step_grades" THEN <<>> ELSE file.grades
    IN
    IF fault = "load_students" \/ ~file.tables
    THEN [ok |-> FALSE, store |-> EmptyStore]
    ELSE IF fault = "load_courses"
    THEN [ok |-> FALSE, store |-> [EmptyStore EXCEPT !.all_students = students]]
    ELSE IF fault = "load_grades"
    THEN [ok |-> FALSE, store |-> [EmptyStore EXCEPT !.all_students = students,
                                                     !.all_courses = courses]]
    ELSE [ok |-> TRUE, store |-> [all_students |-> students,
                                  all_courses |-> courses,
                                  all_grades |-> grades]]

(***************************************************************************)
(* The mirror: DataStore and its helpers.  Each returns [ok, data].        *)
(***************************************************************************)
MResult(ok, d) == [ok |-> ok, data |-> d]

\* exists_student that finds nobody
exists_student_never(d, roll) == FALSE

\* helpers.cpp
exists_student(d, roll) == \E i \in 1..Len(d.all_students) : d.all_students[i].roll_no = roll

\* helpers.cpp
exists_course(d, code) == \E i \in 1..Len(d.all_courses) : d.all_courses[i].code = code

\* helpers.cpp
already_enrolled(d, roll, code) ==
    \E i \in 1..Len(d.all_grades) :
        d.all_grades[i].roll_no = roll /\ d.all_grades[i].course_code = code

\* add_student that appends without looking for the roll_no
add_student_no_check(d, s) == MResult(TRUE, [d EXCEPT !.all_students = Append(@, s)])

\* services.hpp
add_student(d, s) ==
    IF \E i \in 1..Len(d.all_students) : d.all_students[i].roll_no = s.roll_no
    THEN MResult(FALSE, d)
    ELSE MResult(TRUE, [d EXCEPT !.all_students = Append(@, s)])

\* services.hpp
add_course(d, c) ==
    IF \E i \in 1..Len(d.all_courses) : d.all_courses[i].code = c.code
    THEN MResult(FALSE, d)
    ELSE MResult(TRUE, [d EXCEPT !.all_courses = Append(@, c)])

\* enroll_student that appends without looking at the mirror
enroll_student_unchecked(d, roll_no, course_code) ==
    MResult(TRUE, [d EXCEPT !.all_grades =
                      Append(@, Grade(roll_no, course_code, D(0), D(0)))])

\* services.hpp
enroll_student(d, roll_no, course_code) ==
    IF ~(\E i \in 1..Len(d.all_students) : d.all_students[i].roll_no = roll_no)
    THEN MResult(FALSE, d)
    ELSE IF ~(\E i \in 1..Len(d.all_courses) : d.all_courses[i].code = course_code)
    THEN MResult(FALSE, d)
    ELSE IF \E i \in 1..Len(d.all_grades) :
               d.all_grades[i].roll_no = roll_no /\ d.all_grades[i].course_code = course_code
    THEN MResult(FALSE, d)
    ELSE MResult(TRUE, [d EXCEPT !.all_grades =
                           Append(@, Grade(roll_no, course_code, D(0), D(0)))])

\* the first index at which the test holds, 0 when there is none; test is
\* the sequence of the test's results on the elements (std::find_if, and the
\* for loops that return at the first match)
FindIf(test) ==
    IF \E i \in 1..Len(test) : test[i]
    THEN CHOOSE i \in 1..Len(test) : test[i] /\ \A j \in 1..(i - 1) : ~test[j]
    ELSE 0

\* enter_marks whose range ends below 100
enter_marks_below_100(d, roll_no, course_code, internal, final) ==
    IF \/ DLess(internal, D(0)) \/ ~DLess(internal, D(100))
       \/ DLess(final, D(0)) \/ ~DLess(final, D(100))
    THEN MResult(FALSE, d)
    ELSE LET it == FindIf([i \in 1..Len(d.all_grades) |-> d.all_grades[i].roll_no = roll_no /\ d.all_grades[i].course_code = course_code])
         IN  IF it = 0 THEN MResult(FALSE, d)
             ELSE MResult(TRUE, [d EXCEPT !.all_grades[it].internal_mark = internal,
                                          !.all_grades[it].final_mark = final])

\* services.hpp
enter_marks(d, roll_no, course_code, internal, final) ==
    IF \/ DLess(internal, D(0)) \/ DGreater(internal, D(100))
       \/ DLess(final, D(0)) \/ DGreater(final, D(100))
    THEN MResult(FALSE, d)
    ELSE LET it == FindIf([i \in 1..Len(d.all_grades) |-> d.all_grades[i].roll_no = roll_no /\ d.all_grades[i].course_code = course_code])
         IN  IF it = 0 THEN MResult(FALSE, d)
             ELSE MResult(TRUE, [d EXCEPT !.all_grades[it].internal_mark = internal,
                                          !.all_grades[it].final_mark = final])

\* apply_student_update that finds the student and does not assign it
apply_student_update_noop(d, s) ==
    LET it == FindIf([i \in 1..Len(d.all_students) |-> d.all_students[i].roll_no = s.roll_no])
    IN  IF it = 0 THEN MResult(FALSE, d) ELSE MResult(TRUE, d)

\* helpers.cpp
apply_student_update(d, s) ==
    LET it == FindIf([i \in 1..Len(d.all_students) |-> d.all_students[i].roll_no = s.roll_no])
    IN  IF it = 0 THEN MResult(FALSE, d)
        ELSE MResult(TRUE, [d EXCEPT !.all_students[it] = s])

\* helpers.cpp
apply_course_update(d, c) ==
    LET it == FindIf([i \in 1..Len(d.all_courses) |-> d.all_courses[i].code = c.code])
    IN  IF it = 0 THEN MResult(FALSE, d)
        ELSE MResult(TRUE, [d EXCEPT !.all_courses[it] = c])

\* remove_student that erases the grades and leaves the student
remove_student_grades_only(d, roll) ==
    LET grades == SelectSeq(d.all_grades, LAMBDA g : g.roll_no # roll)
    IN  MResult(exists_student(d, roll), [d EXCEPT !.all_grades = grades])

\* remove_student that erases the student and leaves the grades
remove_student_no_cascade(d, roll) ==
    LET students == SelectSeq(d.all_students, LAMBDA s : s.roll_no # roll)
    IN  MResult(Len(students) # Len(d.all_students), [d EXCEPT !.all_students = students])

\* helpers.cpp
remove_student(d, roll) ==
    LET students == SelectSeq(d.all_students, LAMBDA s : s.roll_no # roll)
        grades == SelectSeq(d.all_grades, LAMBDA g : g.roll_no # roll)
    IN  MResult(Len(students) # Len(d.all_students),
                [d EXCEPT !.all_students = students, !.all_grades = grades])

\* remove_course that erases the course and leaves its grades
remove_course_no_cascade(d, code) ==
    LET courses == SelectSeq(d.all_courses, LAMBDA c : c.code # code)
    IN  MResult(Len(courses) # Len(d.all_courses), [d EXCEPT !.all_courses = courses])

\* helpers.cpp
remove_course(d, code) ==
    LET courses == SelectSeq(d.all_courses, LAMBDA c : c.code # code)
        grades == SelectSeq(d.all_grades, LAMBDA g : g.course_code # code)
    IN  MResult(Len(courses) # Len(d.all_courses),
                [d EXCEPT !.all_courses = courses, !.all_grades = grades])

\* remove_enrollment that erases every enrollment of the student
remove_enrollment_by_roll(d, roll, code) ==
    LET grades == SelectSeq(d.all_grades, LAMBDA g : g.roll_no # roll)
    IN  MResult(Len(grades) # Len(d.all_grades), [d EXCEPT !.all_grades = grades])

\* helpers.cpp
remove_enrollment(d, roll, code) ==
    LET grades == SelectSeq(d.all_grades,
                      LAMBDA g : ~(g.roll_no = roll /\ g.course_code = code))
    IN  MResult(Len(grades) # Len(d.all_grades), [d EXCEPT !.all_grades = grades])

(***************************************************************************)
(* Console input.  A prompt reads lines until one ends its loop; v is a    *)
(* line as std::getline(std::cin >> std::ws, v) and trim deliver it.  The  *)
(* result is [ctl, out]; ctl = "Retry" says that the line was refused and  *)
(* the prompt asks again.  The validators are the regular expressions of   *)
(* validation.hpp restricted to the lines of the model.                    *)
(***************************************************************************)
RollLines == {"S001", "S002", "S003", "S010", "S1", "0", "x"}
CodeLines == {"MTH101", "SCI101", "ENG101", "mth", "0", "x"}
NameLines == {"Zed", "Z", "0", "x"}
TextLines == {"1 Test Rd", "0", "x"}
PhoneLines == {"0215550000", "021-000", "0", "x"}
MarkLines == {"100", "101", "-1", "nan", "abc", "0", "x"}
ConfirmLines == {"y", "n", "maybe", "0", "x"}

is_valid_roll(x) == x \in {"S001", "S002", "S003", "S010"}
is_valid_course_code(x) == x \in {"MTH101", "SCI101", "ENG101"}
is_valid_name(x) == x \in {"Zed"}
is_non_empty_short(x) == x \in {"1 Test Rd", "Zed"}
is_valid_phone(x) == x \in {"0215550000"}

\* a call through the validator pointer a prompt was given
Validate(validator, v) ==
    CASE validator = "is_valid_roll" -> is_valid_roll(v)
      [] validator = "is_valid_course_code" -> is_valid_course_code(v)
      [] validator = "is_valid_name" -> is_valid_name(v)
      [] validator = "is_non_empty_short" -> is_non_empty_short(v)
      [] validator = "is_valid_phone" -> is_valid_phone(v)

IsBack(v) == v \in {"0", "b", "B"}
IsExit(v) == v \in {"x", "X", "q", "Q"}
Ctl(c, out) == [ctl |-> c, out |-> out]

\* validation.hpp
prompt_until_valid_or_back(v, validator) ==
    IF IsBack(v) THEN Ctl("Back", "")
    ELSE IF IsExit(v) THEN Ctl("Exit", "")
    ELSE IF Validate(validator, v) THEN Ctl("Ok", v)
    ELSE Ctl("Retry", "")

\* std::stod on the lines of the model: the double it returns; "abc" throws
stod(v) ==
    CASE v = "100" -> [throws |-> FALSE, d |-> D(100)]
      [] v = "101" -> [throws |-> FALSE, d |-> D(101)]
      [] v = "-1" -> [throws |-> FALSE, d |-> D(0 - 1)]
      [] v = "nan" -> [throws |-> FALSE, d |-> NaN]
      [] OTHER -> [throws |-> TRUE, d |-> D(0)]

\* prompt_number_or_back without its range test
prompt_number_or_back_no_range(v, lo, hi) ==
    IF IsBack(v) THEN Ctl("Back", D(0))
    ELSE IF IsExit(v) THEN Ctl("Exit", D(0))
    ELSE IF stod(v).throws THEN Ctl("Retry", D(0))
    ELSE Ctl("Ok", stod(v).d)

\* validation.hpp
prompt_number_or_back(v, lo, hi) ==
    IF IsBack(v) THEN Ctl("Back", D(0))
    ELSE IF IsExit(v) THEN Ctl("Exit", D(0))
    ELSE IF stod(v).throws THEN Ctl("Retry", D(0))
    ELSE IF DLess(stod(v).d, lo) \/ DGreater(stod(v).d, hi) THEN Ctl("Retry", D(0))
    ELSE Ctl("Ok", stod(v).d)

\* validation.hpp
prompt_edit_string(v, current, validator) ==
    IF v = "" THEN Ctl("Ok", current)
    ELSE IF IsBack(v) THEN Ctl("Back", "")
    ELSE IF IsExit(v) THEN Ctl("Exit", "")
    ELSE IF Validate(validator, v) THEN Ctl("Ok", v)
    ELSE Ctl("Retry", "")

\* confirm_or_back that takes n for yes
confirm_or_back_n_is_yes(v) ==
    IF v = "" THEN Ctl("Back", "")
    ELSE IF IsBack(v) THEN Ctl("Back", "")
    ELSE IF IsExit(v) THEN Ctl("Exit", "")
    ELSE IF v \in {"y", "Y", "n", "N"} THEN Ctl("Ok", "")
    ELSE Ctl("Retry", "")

\* validation.hpp
confirm_or_back(v) ==
    IF v = "" \/ v \in {"n", "N"} THEN Ctl("Back", "")
    ELSE IF IsBack(v) THEN Ctl("Back", "")
    ELSE IF IsExit(v) THEN Ctl("Exit", "")
    ELSE IF v \in {"y", "Y"} THEN Ctl("Ok", "")
    ELSE Ctl("Retry", "")

(***************************************************************************)
(* Reporting.  A weighted score is held in tenths, which is exact for the  *)
(* whole marks of the model: the double that weighted() returns is within  *)
(* 2e-14 of tenths / 10.  At the pass mark the difference shows: for the   *)
(* marks of RoundsShort the double is 49.99999999999999 where tenths is    *)
(* 500, and w >= 50.0 is false.                                            *)
(***************************************************************************)
RoundsShort == {<<1, 71>>, <<8, 68>>, <<36, 56>>, <<43, 53>>}

\* weighted with the two weights exchanged
weighted_swapped(g) ==
    [tenths |-> 7 * g.internal_mark.v + 3 * g.final_mark.v,
     short |-> <<g.internal_mark.v, g.final_mark.v>> \in RoundsShort]

\* models.hpp: Grade::weighted
weighted(g) ==
    [tenths |-> 3 * g.internal_mark.v + 7 * g.final_mark.v,
     short |-> <<g.internal_mark.v, g.final_mark.v>> \in RoundsShort]

\* w >= 50.0
AtLeast50(w) == w.tenths > 500 \/ (w.tenths = 500 /\ ~w.short)

NoReport ==
    [op |-> "none", found |-> FALSE, name |-> "", lines |-> <<>>, any |-> FALSE,
     n |-> 0, passed |-> 0, total |-> 0, aggregate |-> FALSE]

\* services.hpp: student_report, its second loop: total, n and passed after
\* the first k grades
RECURSIVE Tally(_, _, _)
Tally(grades, roll_no, k) ==
    IF k = 0 THEN [total |-> 0, n |-> 0, passed |-> 0]
    ELSE LET t == Tally(grades, roll_no, k - 1)
             g == grades[k]
             w == weighted(g)
         IN  IF g.roll_no # roll_no THEN t
             ELSE [total |-> t.total + w.tenths,
                   n |-> t.n + 1,
                   passed |-> IF AtLeast50(w) THEN t.passed + 1 ELSE t.passed]

\* student_report: the title printed for a grade, the course code when the
\* mirror has no such course
TitleOf(d, g) ==
    LET c == FindIf([i \in 1..Len(d.all_courses) |-> d.all_courses[i].code = g.course_code])
    IN  IF c = 0 THEN g.course_code ELSE d.all_courses[c].title

\* student_report that counts a course as passed only above 50.0
student_report_strict(d, roll_no) ==
    LET s == FindIf([i \in 1..Len(d.all_students) |-> d.all_students[i].roll_no = roll_no])
        mine == SelectSeq(d.all_grades, LAMBDA g : g.roll_no = roll_no)
        t == Tally(d.all_grades, roll_no, Len(d.all_grades))
    IN  IF s = 0 THEN [NoReport EXCEPT !.op = "student_report"]
        ELSE [op |-> "student_report", found |-> TRUE, name |-> d.all_students[s].name,
              lines |-> [k \in 1..Len(mine) |->
                           [title |-> TitleOf(d, mine[k]),
                            internal |-> mine[k].internal_mark,
                            final |-> mine[k].final_mark,
                            grade |-> weighted(mine[k])]],
              any |-> Len(mine) > 0,
              n |-> t.n,
              passed |-> Cardinality({k \in 1..Len(mine) : weighted(mine[k]).tenths > 500}),
              total |-> t.total,
              aggregate |-> t.n > 0]

\* student_report that prints the aggregate line without the test n > 0
student_report_unguarded(d, roll_no) ==
    LET s == FindIf([i \in 1..Len(d.all_students) |-> d.all_students[i].roll_no = roll_no])
        mine == SelectSeq(d.all_grades, LAMBDA g : g.roll_no = roll_no)
        t == Tally(d.all_grades, roll_no, Len(d.all_grades))
    IN  IF s = 0 THEN [NoReport EXCEPT !.op = "student_report"]
        ELSE [op |-> "student_report", found |-> TRUE, name |-> d.all_students[s].name,
              lines |-> [k \in 1..Len(mine) |->
                           [title |-> TitleOf(d, mine[k]),
                            internal |-> mine[k].internal_mark,
                            final |-> mine[k].final_mark,
                            grade |-> weighted(mine[k])]],
              any |-> Len(mine) > 0,
              n |-> t.n,
              passed |-> t.passed,
              total |-> t.total,
              aggregate |-> TRUE]

\* services.hpp: student_report.  What it prints: "Student not found." when
\* found is false; else the name, a line per grade of the student in the
\* mirror's order, "Overall average: total / n | Courses: n | Passed:
\* passed/n" when aggregate, and "No courses enrolled." when not any.
student_report(d, roll_no) ==
    LET s == FindIf([i \in 1..Len(d.all_students) |-> d.all_students[i].roll_no = roll_no])
        mine == SelectSeq(d.all_grades, LAMBDA g : g.roll_no = roll_no)
        t == Tally(d.all_grades, roll_no, Len(d.all_grades))
    IN  IF s = 0 THEN [NoReport EXCEPT !.op = "student_report"]
        ELSE [op |-> "student_report", found |-> TRUE, name |-> d.all_students[s].name,
              lines |-> [k \in 1..Len(mine) |->
                           [title |-> TitleOf(d, mine[k]),
                            internal |-> mine[k].internal_mark,
                            final |-> mine[k].final_mark,
                            grade |-> weighted(mine[k])]],
              any |-> Len(mine) > 0,
              n |-> t.n,
              passed |-> t.passed,
              total |-> t.total,
              aggregate |-> t.n > 0]

\* services.hpp: show_enrollments: a line per grade with its weighted score
show_enrollments(d) ==
    [NoReport EXCEPT
        !.op = "show_enrollments",
        !.any = Len(d.all_grades) > 0,
        !.lines = [k \in 1..Len(d.all_grades) |->
                     [title |-> d.all_grades[k].course_code,
                      internal |-> d.all_grades[k].internal_mark,
                      final |-> d.all_grades[k].final_mark,
                      grade |-> weighted(d.all_grades[k])]]]

(***************************************************************************)
(* State.                                                                  *)
(***************************************************************************)
VARIABLES
    pc,      \* "off": no process; "menu": main is at the top of its menu loop
    db,      \* main's sqlite3* db and the connection behind it
    file,    \* school.db
    data,    \* main's DataStore data
    loaded,  \* db_load_all returned true and no scan of it was cut short
             \* (main does not look at what it returns)
    last,    \* the last step: what was asked, what was called, what was said
    nops,    \* menu actions so far
    runs,    \* launches so far
    report,  \* what the last step printed, when it was a view
    returned, \* <<v>> once main has returned v, <<>> before that
    console  \* std::cin and the prompt that is reading it, if one is

vars == <<pc, db, file, data, loaded, last, nops, runs, report, returned, console>>

\* no line is waiting on std::cin and no prompt is reading; choice is main's
\* int choice = -1, eof says that the input has ended behind the lines of
\* cin, failed is the failbit of std::cin, got holds what the prompts of the
\* branch have returned so far and typed counts the lines typed
NoConsole ==
    [cin |-> <<>>, at |-> "main", current |-> "", validator |-> "",
     ctl |-> "", out |-> "", choice |-> 0 - 1, eof |-> FALSE, failed |-> FALSE,
     got |-> <<>>, typed |-> 0]

Call(fn, ok) == [fn |-> fn, ok |-> ok]
\* answer is the line that a delete branch read at its confirmation
Last(op, roll, code, msg, calls) ==
    [op |-> op, roll |-> roll, code |-> code, msg |-> msg, calls |-> calls,
     answer |-> ""]

Init ==
    /\ pc = "off"
    /\ db = NullDb
    /\ file = NoFile
    /\ data = EmptyStore
    /\ loaded = FALSE
    /\ last = Last("none", "", "", "", <<>>)
    /\ nops = 0
    /\ runs = 0
    /\ report = NoReport
    /\ returned = <<>>
    /\ console = NoConsole

(***************************************************************************)
(* main() up to the menu loop.                                             *)
(***************************************************************************)
LaunchFaults ==
    {"none", "open_nomem", "open_cantopen", "ddl",
     "empty_students", "seed_students", "empty_courses", "seed_courses",
     "empty_grades", "seed_grades", "load_students", "load_courses", "load_grades"}

Launch ==
    /\ pc = "off"
    /\ runs < MaxRuns
    /\ runs' = runs + 1
    /\ nops' = nops
    /\ report' = NoReport
    /\ console' = console
    /\ \E fault \in LaunchFaults :
        LET o == db_open(fault)
            i == db_init_and_seed(o.db, file, fault)
            l == db_load_all(o.db, i.file, fault, EmptyStore)
        IN  IF ~o.ok
            THEN /\ pc' = "off"
                 /\ db' = o.db
                 /\ file' = file
                 /\ data' = EmptyStore
                 /\ loaded' = FALSE
                 /\ last' = Last("launch", "", "", "Could not open database.",
                                 <<Call("db_open", FALSE)>>)
                 /\ returned' = <<1>>
            ELSE IF ~i.ok
            THEN /\ pc' = "off"
                 /\ \E ub \in ReleasedOutcomes : db' = db_close(o.db, ub)
                 /\ file' = i.file
                 /\ data' = EmptyStore
                 /\ loaded' = FALSE
                 /\ last' = Last("launch", "", "", "Could not initialize database.",
                                 <<Call("db_open", TRUE), Call("db_init_and_seed", FALSE),
                                   Call("db_close", TRUE)>>)
                 /\ returned' = <<1>>
            ELSE /\ pc' = "menu"
                 /\ db' = o.db
                 /\ file' = i.file
                 /\ data' = l.store
                 /\ loaded' = (l.ok /\ fault \notin StepFaults)
                 /\ last' = Last("launch", "", "", "",
                                 <<Call("db_open", TRUE), Call("db_init_and_seed", TRUE),
                                   Call("db_load_all", l.ok)>>)
                 /\ returned' = <<>>

(***************************************************************************)
(* The menu loop.  One action per branch of the loop body; each reads its  *)
(* lines in the order of the code and ends with an outcome [file, data,    *)
(* exit, last]; exit says that Exit was typed (choice = 0; break).  io is  *)
(* the engine's verdict on the store statement of the branch.              *)
(***************************************************************************)
Outcome(f, d, exit, l) == [file |-> f, data |-> d, exit |-> exit, last |-> l]

\* a prompt answered Back (continue) or Exit (choice = 0; break)
Cancelled(op, ctl) == Outcome(file, data, ctl = "Exit", Last(op, "", "", ctl, <<>>))

\* a pre-flight check on the mirror refused the request (message; continue)
Rejected(op, roll, code, msg) == Outcome(file, data, FALSE, Last(op, roll, code, msg, <<>>))

\* outcome o of a delete branch that read line v at confirm_or_back
Confirmed(o, v) == [o EXCEPT !.last.answer = v]

\* the two calls joined by & : the mirror call is made whatever the store says
WriteThrough_unconditional(op, roll, code, sfn, st, mfn, mi, okmsg, failmsg) ==
    Outcome(st.file, mi.data, FALSE,
            Last(op, roll, code, IF st.ok /\ mi.ok THEN okmsg ELSE failmsg,
                 <<Call(sfn, st.ok), Call(mfn, mi.ok)>>))

\* the two calls in the other order: m_x(data, ...) && db_x(db, ...)
WriteThrough_mirror_first(op, roll, code, sfn, st, mfn, mi, okmsg, failmsg) ==
    IF mi.ok
    THEN Outcome(st.file, mi.data, FALSE,
                 Last(op, roll, code, IF st.ok THEN okmsg ELSE failmsg,
                      <<Call(mfn, TRUE), Call(sfn, st.ok)>>))
    ELSE Outcome(file, mi.data, FALSE,
                 Last(op, roll, code, failmsg, <<Call(mfn, FALSE)>>))

\* if (db_x(db, ...) && m_x(data, ...)) say okmsg; else say failmsg;
\* st and mi are the results of the store call and of the mirror call
WriteThrough(op, roll, code, sfn, st, mfn, mi, okmsg, failmsg) ==
    IF st.ok
    THEN Outcome(st.file, mi.data, FALSE,
                 Last(op, roll, code, IF mi.ok THEN okmsg ELSE failmsg,
                      <<Call(sfn, TRUE), Call(mfn, mi.ok)>>))
    ELSE Outcome(st.file, data, FALSE,
                 Last(op, roll, code, failmsg, <<Call(sfn, FALSE)>>))

(***************************************************************************)
(* The statement that ends each mutating branch,                           *)
(*     if (db_x(db, ...) && m_x(data, ...)) say okmsg; else say failmsg;   *)
(* on the values the branch has read.                                      *)
(***************************************************************************)
WriteAddStudent(s, io) ==
    WriteThrough("add_student", s.roll_no, "",
                 "db_add_student", db_add_student(db, file, s, io),
                 "add_student", add_student(data, s),
                 "Student added (saved to DB).",
                 "Could not add student (duplicate or DB error).")

WriteAddCourse(c, io) ==
    WriteThrough("add_course", "", c.code,
                 "db_add_course", db_add_course(db, file, c, io),
                 "add_course", add_course(data, c),
                 "Course added (saved to DB).",
                 "Could not add course (duplicate or DB error).")

WriteEnroll(r, code, io) ==
    WriteThrough("enroll", r, code,
                 "db_enroll", db_enroll(db, file, r, code, io),
                 "enroll_student", enroll_student(data, r, code),
                 "Enrollment success (saved to DB).",
                 "Failed to enroll.")

WriteEnterMarks(r, code, im, fm, io) ==
    WriteThrough("enter_marks", r, code,
                 "db_enter_marks", db_enter_marks(db, file, r, code, im, fm, io),
                 "enter_marks", enter_marks(data, r, code, im, fm),
                 "Marks saved (persisted to DB).",
                 "Failed to save marks.")

WriteEditStudent(upd, io) ==
    WriteThrough("edit_student", upd.roll_no, "",
                 "db_update_student", db_update_student(db, file, upd, io),
                 "apply_student_update", apply_student_update(data, upd),
                 "Student updated (saved to DB).",
                 "Update failed (DB error or not found).")

WriteEditCourse(upd, io) ==
    WriteThrough("edit_course", "", upd.code,
                 "db_update_course", db_update_course(db, file, upd, io),
                 "apply_course_update", apply_course_update(data, upd),
                 "Course updated (saved to DB).",
                 "Update failed (DB error or not found).")

WriteDeleteStudent(roll, io) ==
    WriteThrough("delete_student", roll, "",
                 "db_delete_student", db_delete_student(db, file, roll, io),
                 "remove_student", remove_student(data, roll),
                 "Student deleted (DB + local grades removed).",
                 "Delete failed (DB error or not found).")

WriteDeleteCourse(code, io) ==
    WriteThrough("delete_course", "", code,
                 "db_delete_course", db_delete_course(db, file, code, io),
                 "remove_course", remove_course(data, code),
                 "Course deleted (DB + local grades removed).",
                 "Delete failed (DB error or not found).")

WriteDeleteEnrollment(r, code, io) ==
    WriteThrough("delete_enrollment", r, code,
                 "db_delete_enrollment", db_delete_enrollment(db, file, r, code, io),
                 "remove_enrollment", remove_enrollment(data, r, code),
                 "Enrollment deleted (DB).",
                 "Delete failed (DB error or not found).")

\* one pass of the loop body with outcome o; a line that a prompt refuses
\* ("Retry") does not end the prompt; after Exit main closes the handle and
\* returns 0
Do(o) ==
    /\ pc = "menu"
    /\ nops < MaxOps
    /\ o.last.msg # "Retry"
    /\ nops' = nops + 1
    /\ report' = NoReport
    /\ runs' = runs
    /\ loaded' = loaded
    /\ file' = o.file
    /\ data' = o.data
    /\ last' = o.last
    /\ console' = console
    /\ pc' = IF o.exit THEN "off" ELSE "menu"
    /\ returned' = IF o.exit THEN <<0>> ELSE <<>>
    /\ IF o.exit
       THEN \E ub \in ReleasedOutcomes : db' = db_close(db, ub)
       ELSE db' = db

\* choice == 1
AddStudent ==
    \E l1 \in RollLines :
    LET r1 == prompt_until_valid_or_back(l1, "is_valid_roll") IN
    IF r1.ctl # "Ok" THEN Do(Cancelled("add_student", r1.ctl))
    ELSE IF exists_student(data, r1.out)
    THEN Do(Rejected("add_student", r1.out, "", "That roll is already used."))
    ELSE \E l2 \in NameLines :
    LET r2 == prompt_until_valid_or_back(l2, "is_valid_name") IN
    IF r2.ctl # "Ok" THEN Do(Cancelled("add_student", r2.ctl))
    ELSE \E l3 \in TextLines :
    LET r3 == prompt_until_valid_or_back(l3, "is_non_empty_short") IN
    IF r3.ctl # "Ok" THEN Do(Cancelled("add_student", r3.ctl))
    ELSE \E l4 \in PhoneLines :
    LET r4 == prompt_until_valid_or_back(l4, "is_valid_phone") IN
    IF r4.ctl # "Ok" THEN Do(Cancelled("add_student", r4.ctl))
    ELSE \E io \in BOOLEAN :
    LET s == Student(r1.out, r2.out, r3.out, r4.out) IN
    Do(WriteAddStudent(s, io))

\* choice == 3
AddCourse ==
    \E l1 \in CodeLines :
    LET a == prompt_until_valid_or_back(l1, "is_valid_course_code") IN
    IF a.ctl # "Ok" THEN Do(Cancelled("add_course", a.ctl))
    ELSE IF exists_course(data, a.out)
    THEN Do(Rejected("add_course", "", a.out, "Course code already exists."))
    ELSE \E l2 \in TextLines :
    LET b == prompt_until_valid_or_back(l2, "is_non_empty_short") IN
    IF b.ctl # "Ok" THEN Do(Cancelled("add_course", b.ctl))
    ELSE \E l3 \in TextLines :
    LET d == prompt_until_valid_or_back(l3, "is_non_empty_short") IN
    IF d.ctl # "Ok" THEN Do(Cancelled("add_course", d.ctl))
    ELSE \E l4 \in NameLines :
    LET e == prompt_until_valid_or_back(l4, "is_valid_name") IN
    IF e.ctl # "Ok" THEN Do(Cancelled("add_course", e.ctl))
    ELSE \E io \in BOOLEAN :
    LET c == Course(a.out, b.out, d.out, e.out) IN
    Do(WriteAddCourse(c, io))

\* choice == 5
Enroll ==
    \E l1 \in RollLines :
    LET p1 == prompt_until_valid_or_back(l1, "is_valid_roll") IN
    IF p1.ctl # "Ok" THEN Do(Cancelled("enroll", p1.ctl))
    ELSE \E l2 \in CodeLines :
    LET p2 == prompt_until_valid_or_back(l2, "is_valid_course_code")
        r == p1.out
        code == p2.out
    IN
    IF p2.ctl # "Ok" THEN Do(Cancelled("enroll", p2.ctl))
    ELSE IF ~exists_student(data, r)
    THEN Do(Rejected("enroll", r, code, "Student does not exist."))
    ELSE IF ~exists_course(data, code)
    THEN Do(Rejected("enroll", r, code, "Course does not exist."))
    ELSE IF already_enrolled(data, r, code)
    THEN Do(Rejected("enroll", r, code, "Already enrolled."))
    ELSE \E io \in BOOLEAN :
    Do(WriteEnroll(r, code, io))

\* choice == 6
EnterMarks ==
    \E l1 \in RollLines :
    LET p1 == prompt_until_valid_or_back(l1, "is_valid_roll") IN
    IF p1.ctl # "Ok" THEN Do(Cancelled("enter_marks", p1.ctl))
    ELSE \E l2 \in CodeLines :
    LET p2 == prompt_until_valid_or_back(l2, "is_valid_course_code")
        r == p1.out
        code == p2.out
    IN
    IF p2.ctl # "Ok" THEN Do(Cancelled("enter_marks", p2.ctl))
    ELSE IF ~already_enrolled(data, r, code)
    THEN Do(Rejected("enter_marks", r, code, "Not enrolled in that course."))
    ELSE \E l3 \in MarkLines :
    LET n1 == prompt_number_or_back(l3, MarkLo, MarkHi) IN
    IF n1.ctl # "Ok" THEN Do(Cancelled("enter_marks", n1.ctl))
    ELSE \E l4 \in MarkLines :
    LET n2 == prompt_number_or_back(l4, MarkLo, MarkHi) IN
    IF n2.ctl # "Ok" THEN Do(Cancelled("enter_marks", n2.ctl))
    ELSE \E io \in BOOLEAN :
    LET im == n1.out
        fm == n2.out
    IN
    Do(WriteEnterMarks(r, code, im, fm, io))

\* choice == 8
EditStudent ==
    \E l1 \in RollLines :
    LET s1 == prompt_until_valid_or_back(l1, "is_valid_roll")
        roll == s1.out
        at == FindIf([i \in 1..Len(data.all_students) |-> data.all_students[i].roll_no = roll])
        cur == data.all_students[at]
    IN
    IF s1.ctl # "Ok" THEN Do(Cancelled("edit_student", s1.ctl))
    ELSE IF at = 0 THEN Do(Rejected("edit_student", roll, "", "Student not found."))
    ELSE \E l2 \in NameLines :
    LET r2 == prompt_edit_string(l2, cur.name, "is_valid_name") IN
    IF r2.ctl # "Ok" THEN Do(Cancelled("edit_student", r2.ctl))
    ELSE \E l3 \in TextLines :
    LET r3 == prompt_edit_string(l3, cur.address, "is_non_empty_short") IN
    IF r3.ctl # "Ok" THEN Do(Cancelled("edit_student", r3.ctl))
    ELSE \E l4 \in PhoneLines :
    LET r4 == prompt_edit_string(l4, cur.contact, "is_valid_phone") IN
    IF r4.ctl # "Ok" THEN Do(Cancelled("edit_student", r4.ctl))
    ELSE \E io \in BOOLEAN :
    LET upd == [cur EXCEPT !.name = r2.out, !.address = r3.out, !.contact = r4.out] IN
    Do(WriteEditStudent(upd, io))

\* choice == 9
EditCourse ==
    \E l1 \in CodeLines :
    LET c1 == prompt_until_valid_or_back(l1, "is_valid_course_code")
        code == c1.out
        at == FindIf([i \in 1..Len(data.all_courses) |-> data.all_courses[i].code = code])
        cur == data.all_courses[at]
    IN
    IF c1.ctl # "Ok" THEN Do(Cancelled("edit_course", c1.ctl))
    ELSE IF at = 0 THEN Do(Rejected("edit_course", "", code, "Course not found."))
    ELSE \E l2 \in TextLines :
    LET e1 == prompt_edit_string(l2, cur.title, "is_non_empty_short") IN
    IF e1.ctl # "Ok" THEN Do(Cancelled("edit_course", e1.ctl))
    ELSE \E l3 \in TextLines :
    LET e2 == prompt_edit_string(l3, cur.description, "is_non_empty_short") IN
    IF e2.ctl # "Ok" THEN Do(Cancelled("edit_course", e2.ctl))
    ELSE \E l4 \in NameLines :
    LET e3 == prompt_edit_string(l4, cur.teacher, "is_valid_name") IN
    IF e3.ctl # "Ok" THEN Do(Cancelled("edit_course", e3.ctl))
    ELSE \E io \in BOOLEAN :
    LET upd == [cur EXCEPT !.title = e1.out, !.description = e2.out, !.teacher = e3.out] IN
    Do(WriteEditCourse(upd, io))

\* choice == 10
DeleteStudent ==
    \E l1 \in RollLines :
    LET p == prompt_until_valid_or_back(l1, "is_valid_roll")
        roll == p.out
    IN
    IF p.ctl # "Ok" THEN Do(Cancelled("delete_student", p.ctl))
    ELSE IF ~exists_student(data, roll)
    THEN Do(Rejected("delete_student", roll, "", "Student not found."))
    ELSE \E l2 \in ConfirmLines :
    LET c == confirm_or_back(l2) IN
    IF c.ctl # "Ok" THEN Do(Confirmed(Cancelled("delete_student", c.ctl), l2))
    ELSE \E io \in BOOLEAN :
    Do(Confirmed(WriteDeleteStudent(roll, io), l2))

\* choice == 11
DeleteCourse ==
    \E l1 \in CodeLines :
    LET p == prompt_until_valid_or_back(l1, "is_valid_course_code")
        code == p.out
    IN
    IF p.ctl # "Ok" THEN Do(Cancelled("delete_course", p.ctl))
    ELSE IF ~exists_course(data, code)
    THEN Do(Rejected("delete_course", "", code, "Course not found."))
    ELSE \E l2 \in ConfirmLines :
    LET c == confirm_or_back(l2) IN
    IF c.ctl # "Ok" THEN Do(Confirmed(Cancelled("delete_course", c.ctl), l2))
    ELSE \E io \in BOOLEAN :
    Do(Confirmed(WriteDeleteCourse(code, io), l2))

\* choice == 12
DeleteEnrollment ==
    \E l1 \in RollLines :
    LET p1 == prompt_until_valid_or_back(l1, "is_valid_roll") IN
    IF p1.ctl # "Ok" THEN Do(Cancelled("delete_enrollment", p1.ctl))
    ELSE \E l2 \in CodeLines :
    LET p2 == prompt_until_valid_or_back(l2, "is_valid_course_code")
        r == p1.out
        code == p2.out
    IN
    IF p2.ctl # "Ok" THEN Do(Cancelled("delete_enrollment", p2.ctl))
    ELSE IF ~already_enrolled(data, r, code)
    THEN Do(Rejected("delete_enrollment", r, code, "Not enrolled in that course."))
    ELSE \E l3 \in ConfirmLines :
    LET c == confirm_or_back(l3) IN
    IF c.ctl # "Ok" THEN Do(Confirmed(Cancelled("delete_enrollment", c.ctl), l3))
    ELSE \E io \in BOOLEAN :
    Do(Confirmed(WriteDeleteEnrollment(r, code, io), l3))

\* choice == 0: the loop ends, db_close(db), return 0
MenuExit ==
    /\ pc = "menu"
    /\ pc' = "off"
    /\ \E ub \in ReleasedOutcomes : db' = db_close(db, ub)
    /\ last' = Last("exit", "", "", "", <<Call("db_close", TRUE)>>)
    /\ report' = NoReport
    /\ returned' = <<0>>
    /\ UNCHANGED <<file, data, loaded, nops, runs, console>>

Next ==
    \/ Launch
    \/ AddStudent
    \/ AddCourse
    \/ Enroll
    \/ EnterMarks
    \/ EditStudent
    \/ EditCourse
    \/ DeleteStudent
    \/ DeleteCourse
    \/ DeleteEnrollment
    \/ MenuExit

Spec == Init /\ [][Next]_vars

(***************************************************************************)
(* The functions on their own.  SpecOps starts in the menu loop of a first *)
(* launch and, besides the branches of the menu, calls one store function  *)
(* or one mirror function at a time, with any arguments and the engine     *)
(* working (io = TRUE), as a test of that function would; store and mirror *)
(* need not agree there.                                                   *)
(***************************************************************************)
TestRolls == {"S001", "S002", "S010"}
TestCodes == {"MTH101", "ENG101"}
TestMarks == {<<D(100), D(100)>>, <<NaN, D(100)>>, <<D(100), D(101)>>}
TestStudents == {Student(r, "Zed", "1 Test Rd", "0215550000") : r \in TestRolls}
TestCourses == {Course(c, "1 Test Rd", "1 Test Rd", "Zed") : c \in TestCodes}

InitOps ==
    /\ pc = "menu"
    /\ db = db_open("none").db
    /\ file = db_init_and_seed(db_open("none").db, NoFile, "none").file
    /\ data = db_load_all(db_open("none").db,
                          db_init_and_seed(db_open("none").db, NoFile, "none").file,
                          "none", EmptyStore).store
    /\ loaded = TRUE
    /\ last = Last("none", "", "", "", <<>>)
    /\ nops = 0
    /\ runs = 1
    /\ report = NoReport
    /\ returned = <<>>
    /\ console = NoConsole

\* a direct call of store function fn with result r
StoreCall(fn, roll, code, r) ==
    /\ pc = "menu"
    /\ nops < MaxOps
    /\ nops' = nops + 1
    /\ file' = r.file
    /\ last' = Last("call", roll, code, "", <<Call(fn, r.ok)>>)
    /\ UNCHANGED <<pc, db, data, loaded, runs, report, returned, console>>

\* a direct call of mirror function fn with result r
MirrorCall(fn, roll, code, r) ==
    /\ pc = "menu"
    /\ nops < MaxOps
    /\ nops' = nops + 1
    /\ data' = r.data
    /\ last' = Last("call", roll, code, "", <<Call(fn, r.ok)>>)
    /\ UNCHANGED <<pc, db, file, loaded, runs, report, returned, console>>

CallDbAddStudent ==
    \E s \in TestStudents :
        StoreCall("db_add_student", s.roll_no, "", db_add_student(db, file, s, TRUE))

CallDbAddCourse ==
    \E c \in TestCourses :
        StoreCall("db_add_course", "", c.code, db_add_course(db, file, c, TRUE))

CallDbEnroll ==
    \E r \in TestRolls, c \in TestCodes :
        StoreCall("db_enroll", r, c, db_enroll(db, file, r, c, TRUE))

CallDbEnterMarks ==
    \E r \in TestRolls, c \in TestCodes, m \in TestMarks :
        StoreCall("db_enter_marks", r, c, db_enter_marks(db, file, r, c, m[1], m[2], TRUE))

CallDbUpdateStudent ==
    \E s \in TestStudents :
        StoreCall("db_update_student", s.roll_no, "", db_update_student(db, file, s, TRUE))

CallDbUpdateCourse ==
    \E c \in TestCourses :
        StoreCall("db_update_course", "", c.code, db_update_course(db, file, c, TRUE))

CallDbDeleteStudent ==
    \E r \in TestRolls :
        StoreCall("db_delete_student", r, "", db_delete_student(db, file, r, TRUE))

CallDbDeleteCourse ==
    \E c \in TestCodes :
        StoreCall("db_delete_course", "", c, db_delete_course(db, file, c, TRUE))

CallDbDeleteEnrollment ==
    \E r \in TestRolls, c \in TestCodes :
        StoreCall("db_delete_enrollment", r, c, db_delete_enrollment(db, file, r, c, TRUE))

CallAddStudent ==
    \E s \in TestStudents : MirrorCall("add_student", s.roll_no, "", add_student(data, s))

CallAddCourse ==
    \E c \in TestCourses : MirrorCall("add_course", "", c.code, add_course(data, c))

CallEnrollStudent ==
    \E r \in TestRolls, c \in TestCodes :
        MirrorCall("enroll_student", r, c, enroll_student(data, r, c))

CallEnterMarks ==
    \E r \in TestRolls, c \in TestCodes, m \in TestMarks :
        MirrorCall("enter_marks", r, c, enter_marks(data, r, c, m[1], m[2]))

CallApplyStudentUpdate ==
    \E s \in TestStudents :
        MirrorCall("apply_student_update", s.roll_no, "", apply_student_update(data, s))

CallApplyCourseUpdate ==
    \E c \in TestCourses :
        MirrorCall("apply_course_update", "", c.code, apply_course_update(data, c))

CallRemoveStudent ==
    \E r \in TestRolls : MirrorCall("remove_student", r, "", remove_student(data, r))

CallRemoveCourse ==
    \E c \in TestCodes : MirrorCall("remove_course", "", c, remove_course(data, c))

CallRemoveEnrollment ==
    \E r \in TestRolls, c \in TestCodes :
        MirrorCall("remove_enrollment", r, c, remove_enrollment(data, r, c))

NextOps ==
    \/ AddStudent
    \/ AddCourse
    \/ Enroll
    \/ EnterMarks
    \/ EditStudent
    \/ EditCourse
    \/ DeleteStudent
    \/ DeleteCourse
    \/ DeleteEnrollment
    \/ CallDbAddStudent
    \/ CallDbAddCourse
    \/ CallDbEnroll
    \/ CallDbEnterMarks
    \/ CallDbUpdateStudent
    \/ CallDbUpdateCourse
    \/ CallDbDeleteStudent
    \/ CallDbDeleteCourse
    \/ CallDbDeleteEnrollment
    \/ CallAddStudent
    \/ CallAddCourse
    \/ CallEnrollStudent
    \/ CallEnterMarks
    \/ CallApplyStudentUpdate
    \/ CallApplyCourseUpdate
    \/ CallRemoveStudent
    \/ CallRemoveCourse
    \/ CallRemoveEnrollment

SpecOps == InitOps /\ [][NextOps]_vars

(***************************************************************************)
(* Startup and shutdown on their own.  SpecLife starts after a run has     *)
(* ended, over any store that up to MaxDeletes successful deletes of       *)
(* seeded rows leave of the seeded store, and launches, leaves by choice   *)
(* 0, and calls db_close on main's pointer once main has returned.         *)
(***************************************************************************)
MaxDeletes == 3

SeededStore == db_init_and_seed(db_open("none").db, NoFile, "none").file

RECURSIVE StoresLeft(_)
StoresLeft(n) ==
    IF n = 0 THEN {SeededStore}
    ELSE LET before == StoresLeft(n - 1)
             conn == db_open("none").db
         IN  before
             \cup {db_delete_student(conn, f, r, TRUE).file :
                      f \in before, r \in RollsOf(seed_students)}
             \cup {db_delete_course(conn, f, c, TRUE).file :
                      f \in before, c \in CodesOf(seed_courses)}
             \cup {db_delete_enrollment(conn, f, e[1], e[2], TRUE).file :
                      f \in before, e \in PairsOf(seed_grades)}

InitLife ==
    /\ pc = "off"
    /\ db = [db_open("none").db EXCEPT !.handle = "closed"]
    /\ file \in StoresLeft(MaxDeletes)
    /\ data = EmptyStore
    /\ loaded = FALSE
    /\ last = Last("exit", "", "", "", <<Call("db_close", TRUE)>>)
    /\ nops = 0
    /\ runs = 1
    /\ report = NoReport
    /\ returned = <<0>>
    /\ console = NoConsole

\* db_close(db) once more, on the pointer main was left with
CallDbClose ==
    /\ pc = "off"
    /\ \E ub \in ReleasedOutcomes : db' = db_close(db, ub)
    /\ last' = Last("call", "", "", "", <<Call("db_close", TRUE)>>)
    /\ UNCHANGED <<pc, file, data, loaded, nops, runs, report, returned, console>>

NextLife ==
    \/ Launch
    \/ MenuExit
    \/ CallDbClose

SpecLife == InitLife /\ [][NextLife]_vars

(***************************************************************************)
(* The closing statement of each mutating branch on its own.  SpecSync     *)
(* starts like SpecOps and takes the direct calls of the mirror functions, *)
(* which leave the mirror different from the store, and the closing        *)
(* statements on drawn values, without the checks that the branches make   *)
(* before them: the way to run the statement when its store call returns   *)
(* true and its mirror call returns false.                                 *)
(***************************************************************************)
StmtAddStudent ==
    \E s \in TestStudents, io \in BOOLEAN : Do(WriteAddStudent(s, io))

StmtAddCourse ==
    \E c \in TestCourses, io \in BOOLEAN : Do(WriteAddCourse(c, io))

StmtEnroll ==
    \E r \in TestRolls, c \in TestCodes, io \in BOOLEAN : Do(WriteEnroll(r, c, io))

StmtEnterMarks ==
    \E r \in TestRolls, c \in TestCodes, m \in TestMarks, io \in BOOLEAN :
        Do(WriteEnterMarks(r, c, m[1], m[2], io))

StmtEditStudent ==
    \E s \in TestStudents, io \in BOOLEAN : Do(WriteEditStudent(s, io))

StmtEditCourse ==
    \E c \in TestCourses, io \in BOOLEAN : Do(WriteEditCourse(c, io))

StmtDeleteStudent ==
    \E r \in TestRolls, io \in BOOLEAN : Do(WriteDeleteStudent(r, io))

StmtDeleteCourse ==
    \E c \in TestCodes, io \in BOOLEAN : Do(WriteDeleteCourse(c, io))

StmtDeleteEnrollment ==
    \E r \in TestRolls, c \in TestCodes, io \in BOOLEAN :
        Do(WriteDeleteEnrollment(r, c, io))

NextSync ==
    \/ CallAddStudent
    \/ CallAddCourse
    \/ CallEnrollStudent
    \/ CallEnterMarks
    \/ CallApplyStudentUpdate
    \/ CallApplyCourseUpdate
    \/ CallRemoveStudent
    \/ CallRemoveCourse
    \/ CallRemoveEnrollment
    \/ StmtAddStudent
    \/ StmtAddCourse
    \/ StmtEnroll
    \/ StmtEnterMarks
    \/ StmtEditStudent
    \/ StmtEditCourse
    \/ StmtDeleteStudent
    \/ StmtDeleteCourse
    \/ StmtDeleteEnrollment

SpecSync == InitOps /\ [][NextSync]_vars

(***************************************************************************)
(* The five store functions that change or delete a row by its identity,   *)
(* called directly on the seeded store and on what a first call leaves,    *)
(* with records that are new, that have no row, and that equal the row     *)
(* they replace.                                                           *)
(***************************************************************************)
RowStudents == TestStudents \cup {seed_students[1]}
RowCourses == TestCourses \cup {seed_courses[1]}

RowUpdateStudent ==
    \E s \in RowStudents :
        StoreCall("db_update_student", s.roll_no, "", db_update_student(db, file, s, TRUE))

RowUpdateCourse ==
    \E c \in RowCourses :
        StoreCall("db_update_course", "", c.code, db_update_course(db, file, c, TRUE))

NextRows ==
    \/ RowUpdateStudent
    \/ RowUpdateCourse
    \/ CallDbDeleteStudent
    \/ CallDbDeleteCourse
    \/ CallDbDeleteEnrollment

SpecRows == InitOps /\ [][NextRows]_vars

(***************************************************************************)
(* db_load_all called directly, once and again, on the stores that one     *)
(* delete leaves, into a DataStore that is empty, that holds the seeded    *)
(* rows, or that holds a student the store does not have, with each of the *)
(* engine's faults.                                                        *)
(***************************************************************************)
LoadFaults == {"none", "load_students", "load_courses", "load_grades"} \cup StepFaults

\* the DataStore that holds the rows of file f, each once, in table order
MirrorOf(f) ==
    [all_students |-> f.students, all_courses |-> f.courses, all_grades |-> f.grades]

PriorMirrors ==
    { EmptyStore, MirrorOf(SeededStore),
      [EmptyStore EXCEPT !.all_students =
          <<Student("S010", "Zed", "1 Test Rd", "0215550000")>>] }

InitLoad ==
    /\ pc = "menu"
    /\ db = db_open("none").db
    /\ file \in StoresLeft(1)
    /\ data \in PriorMirrors
    /\ loaded = FALSE
    /\ last = Last("none", "", "", "", <<>>)
    /\ nops = 0
    /\ runs = 1
    /\ report = NoReport
    /\ returned = <<>>
    /\ console = NoConsole

CallDbLoadAll ==
    \E fault \in LoadFaults :
        LET l == db_load_all(db, file, fault, data) IN
        /\ pc = "menu"
        /\ nops < MaxOps
        /\ nops' = nops + 1
        /\ data' = l.store
        /\ loaded' = (l.ok /\ fault \notin StepFaults)
        /\ last' = Last("call", "", "", "", <<Call("db_load_all", l.ok)>>)
        /\ UNCHANGED <<pc, db, file, runs, report, returned, console>>

NextLoad == CallDbLoadAll

SpecLoad == InitLoad /\ [][NextLoad]_vars

(***************************************************************************)
(* The read of a prompt.  std::cin holds the lines typed and not yet read. *)
(* std::cin >> std::ws takes every whitespace character in front of the    *)
(* next other character, the newline of a line among them, and waits for   *)
(* more input when there is none; std::getline then takes the rest of the  *)
(* line.  SpecPrompt types lines, enters prompt_edit_string as the edit    *)
(* branches of main do (out is the field of upd, a copy of cur) and lets   *)
(* it read.                                                                *)
(***************************************************************************)
MaxTyped == 3

TypedLines == {"", " ", "Zed", " Zed ", "Z", "0", "x"}

\* std::isspace holds for every character of the line
IsBlank(l) == l \in {"", " "}

\* the line without the whitespace std::ws takes in front of it
lstrip(l) == IF l = " Zed " THEN "Zed " ELSE l

\* validation.hpp
trim(s) ==
    CASE IsBlank(s) -> ""
      [] s \in {" Zed ", "Zed "} -> "Zed"
      [] OTHER -> s

\* std::cin >> std::ws: what is left of the typed lines
RECURSIVE SkipWs(_)
SkipWs(cin) ==
    IF cin # <<>> /\ IsBlank(Head(cin)) THEN SkipWs(Tail(cin)) ELSE cin

\* the user types a line and presses Enter
TypeLine ==
    /\ Len(console.cin) < MaxTyped
    /\ \E l \in TypedLines : console' = [console EXCEPT !.cin = Append(@, l)]
    /\ UNCHANGED <<pc, db, file, data, loaded, last, nops, runs, report, returned>>

\* the arguments current and validator of the prompts of choice == 8
PromptArgs ==
    { <<seed_students[1].name, "is_valid_name">>,
      <<seed_students[1].address, "is_non_empty_short">>,
      <<seed_students[1].contact, "is_valid_phone">> }

\* main enters prompt_edit_string(label, cur.f, upd.f, validator, error_msg)
CallPromptEditString ==
    /\ pc = "menu"
    /\ console.at = "main"
    /\ \E a \in PromptArgs :
        console' = [console EXCEPT !.at = "prompt_edit_string", !.current = a[1],
                                   !.validator = a[2], !.ctl = "", !.out = a[1]]
    /\ UNCHANGED <<pc, db, file, data, loaded, last, nops, runs, report, returned>>

\* one turn of the loop of prompt_edit_string: it waits until std::ws has
\* found a character that is not whitespace, reads the line and returns
\* unless the line is refused
PromptRead ==
    /\ console.at = "prompt_edit_string"
    /\ console.cin # <<>>
    /\ LET rest == SkipWs(console.cin) IN
       IF rest = <<>>
       THEN console' = [console EXCEPT !.cin = <<>>]
       ELSE LET v == trim(lstrip(Head(rest)))
                r == prompt_edit_string(v, console.current, console.validator)
            IN  console' =
                  [console EXCEPT
                     !.cin = Tail(rest),
                     !.at = IF r.ctl = "Retry" THEN "prompt_edit_string" ELSE "main",
                     !.ctl = IF r.ctl = "Retry" THEN "" ELSE r.ctl,
                     !.out = IF r.ctl = "Ok" THEN r.out ELSE @]
    /\ UNCHANGED <<pc, db, file, data, loaded, last, nops, runs, report, returned>>

NextPrompt ==
    \/ TypeLine
    \/ CallPromptEditString
    \/ PromptRead

SpecPrompt == InitOps /\ [][NextPrompt]_vars

(***************************************************************************)
(* The menu loop read line by line.  SpecConsole starts at the top of the  *)
(* loop of a first launch; the user answers with a line when the program   *)
(* waits, or ends the input.  One turn of the loop reads the choice with   *)
(* std::cin >> choice and enters the branch; every prompt of the branch    *)
(* reads its line in a step of its own, and the branch ends as in the      *)
(* actions of Spec.  A read that fails leaves the failbit set; the next    *)
(* step is the clear() and ignore() that follow it in the code.            *)
(***************************************************************************)
MaxLines == 3

INT_MAX == 2147483647

ConsoleLines == {"x", "0", "S001", "MTH101", "y", "6", "8", "10", "99999999999"}

\* std::cin >> choice on a line: the number in front of it; when there is no
\* digit the extraction fails and stores 0, when the number does not fit an
\* int it fails and stores the largest int
ExtractInt(l) ==
    CASE l = "0" -> [ok |-> TRUE, val |-> 0]
      [] l = "6" -> [ok |-> TRUE, val |-> 6]
      [] l = "8" -> [ok |-> TRUE, val |-> 8]
      [] l = "10" -> [ok |-> TRUE, val |-> 10]
      [] l = "99999999999" -> [ok |-> FALSE, val |-> INT_MAX]
      [] OTHER -> [ok |-> FALSE, val |-> 0]

\* the next thing a branch does: it calls a prompt, or it ends with outcome o
Ask(fn, current, validator) ==
    [ask |-> TRUE, fn |-> fn, current |-> current, validator |-> validator]
Done(o) == [ask |-> FALSE, o |-> o]

BranchOp(choice) ==
    CASE choice = 6 -> "enter_marks"
      [] choice = 8 -> "edit_student"
      [] choice = 10 -> "delete_student"
      [] OTHER -> "unknown"

\* the branch of choice after its prompts have returned got with Ok
Branch(choice, got, io) ==
    CASE choice = 6 ->
           IF Len(got) = 0
           THEN Ask("prompt_until_valid_or_back", "", "is_valid_roll")
           ELSE IF Len(got) = 1
           THEN Ask("prompt_until_valid_or_back", "", "is_valid_course_code")
           ELSE IF ~already_enrolled(data, got[1], got[2])
           THEN Done(Rejected("enter_marks", got[1], got[2],
                              "Not enrolled in that course."))
           ELSE IF Len(got) < 4
           THEN Ask("prompt_number_or_back", "", "")
           ELSE Done(WriteEnterMarks(got[1], got[2], got[3], got[4], io))
      [] choice = 8 ->
           LET at == FindIf([i \in 1..Len(data.all_students) |->
                                 data.all_students[i].roll_no = got[1]])
               cur == data.all_students[at]
           IN  IF Len(got) = 0
               THEN Ask("prompt_until_valid_or_back", "", "is_valid_roll")
               ELSE IF at = 0
               THEN Done(Rejected("edit_student", got[1], "", "Student not found."))
               ELSE IF Len(got) = 1
               THEN Ask("prompt_edit_string", cur.name, "is_valid_name")
               ELSE IF Len(got) = 2
               THEN Ask("prompt_edit_string", cur.address, "is_non_empty_short")
               ELSE IF Len(got) = 3
               THEN Ask("prompt_edit_string", cur.contact, "is_valid_phone")
               ELSE Done(WriteEditStudent([cur EXCEPT !.name = got[2],
                                                      !.address = got[3],
                                                      !.contact = got[4]], io))
      [] choice = 10 ->
           IF Len(got) = 0
           THEN Ask("prompt_until_valid_or_back", "", "is_valid_roll")
           ELSE IF ~exists_student(data, got[1])
           THEN Done(Rejected("delete_student", got[1], "", "Student not found."))
           ELSE IF Len(got) = 1
           THEN Ask("confirm_or_back", "", "")
           ELSE Done(WriteDeleteStudent(got[1], io))
      [] OTHER -> Done(Rejected("unknown", "", "", "Unknown option."))

\* the prompt fn on the line v
PromptOn(fn, v, current, validator) ==
    CASE fn = "prompt_until_valid_or_back" -> prompt_until_valid_or_back(v, validator)
      [] fn = "prompt_number_or_back" -> prompt_number_or_back(v, MarkLo, MarkHi)
      [] fn = "prompt_edit_string" -> prompt_edit_string(v, current, validator)
      [] fn = "confirm_or_back" -> confirm_or_back(v)

\* main goes on with b after a read that left rest on std::cin; choice is
\* the choice of the turn and got what the prompts of the branch returned
GoOn(b, rest, choice, got) ==
    IF b.ask
    THEN /\ console' = [console EXCEPT !.cin = rest, !.choice = choice, !.at = b.fn,
                                       !.current = b.current,
                                       !.validator = b.validator, !.got = got]
         /\ UNCHANGED <<file, data, last, nops>>
    ELSE /\ console' = [console EXCEPT !.cin = rest, !.at = "main", !.got = <<>>,
                                       !.current = "", !.validator = "",
                                       !.choice = IF b.o.exit THEN 0 ELSE choice]
         /\ file' = b.o.file
         /\ data' = b.o.data
         /\ last' = b.o.last
         /\ nops' = nops + 1

\* the user types a line and presses Enter when the program waits for one
Answer ==
    /\ pc = "menu"
    /\ ~console.eof
    /\ console.cin = <<>>
    /\ console.typed < MaxLines
    /\ \E l \in ConsoleLines :
        console' = [console EXCEPT !.cin = <<l>>, !.typed = @ + 1]
    /\ UNCHANGED <<pc, db, file, data, loaded, last, nops, runs, report, returned>>

\* the input ends: Ctrl-D, Ctrl-Z, or the end of a file that is piped in
EndInput ==
    /\ pc = "menu"
    /\ ~console.eof
    /\ console' = [console EXCEPT !.eof = TRUE]
    /\ UNCHANGED <<pc, db, file, data, loaded, last, nops, runs, report, returned>>

\* while (choice != 0): the menu, std::cin >> choice, and the branch up to
\* its first prompt.  At the end of the input the extraction fails and
\* leaves choice as it is.
MenuTurn ==
    /\ pc = "menu"
    /\ console.at = "main"
    /\ ~console.failed
    /\ console.choice # 0
    /\ LET rest == SkipWs(console.cin)
           e == ExtractInt(Head(rest))
       IN  IF rest = <<>>
           THEN /\ console.eof
                /\ console' = [console EXCEPT !.cin = <<>>, !.failed = TRUE]
                /\ last' = Last("choice_failed", "", "", "", <<>>)
                /\ UNCHANGED <<file, data, nops>>
           ELSE IF ~e.ok
           THEN /\ console' = [console EXCEPT !.cin = rest, !.failed = TRUE,
                                              !.choice = e.val]
                /\ last' = Last("choice_failed", "", "", "", <<>>)
                /\ UNCHANGED <<file, data, nops>>
           ELSE IF e.val = 0
           THEN /\ console' = [console EXCEPT !.cin = Tail(rest), !.choice = 0]
                /\ last' = Last("choice", "", "", "", <<>>)
                /\ UNCHANGED <<file, data, nops>>
           ELSE \E io \in BOOLEAN :
                    GoOn(Branch(e.val, <<>>, io), Tail(rest), e.val, <<>>)
    /\ UNCHANGED <<pc, db, loaded, runs, report, returned>>

\* after a read that failed: clear_input(); continue; in the menu loop, the
\* same two calls and continue in a prompt
ClearInput ==
    /\ pc = "menu"
    /\ console.failed
    /\ console' = [console EXCEPT !.failed = FALSE,
                                  !.cin = IF @ = <<>> THEN <<>> ELSE Tail(@)]
    /\ UNCHANGED <<pc, db, file, data, loaded, last, nops, runs, report, returned>>

\* one turn of the loop of a prompt: the read of validation.hpp, and what
\* the branch does with a line that ends the prompt
PromptTurn ==
    /\ pc = "menu"
    /\ console.at # "main"
    /\ ~console.failed
    /\ LET rest == SkipWs(console.cin)
           v == trim(lstrip(Head(rest)))
           r == PromptOn(console.at, v, console.current, console.validator)
           cancel == Cancelled(BranchOp(console.choice), r.ctl)
       IN  IF rest = <<>>
           THEN /\ console.eof
                /\ console' = [console EXCEPT !.cin = <<>>, !.failed = TRUE]
                /\ UNCHANGED <<file, data, last, nops>>
           ELSE IF r.ctl = "Retry"
           THEN /\ console' = [console EXCEPT !.cin = Tail(rest)]
                /\ UNCHANGED <<file, data, last, nops>>
           ELSE IF r.ctl # "Ok"
           THEN GoOn(Done(IF console.at = "confirm_or_back"
                          THEN Confirmed(cancel, v) ELSE cancel),
                     Tail(rest), console.choice, <<>>)
           ELSE \E io \in BOOLEAN :
                LET got == Append(console.got, r.out)
                    b == Branch(console.choice, got, io)
                IN  GoOn(IF ~b.ask /\ console.at = "confirm_or_back"
                         THEN Done(Confirmed(b.o, v)) ELSE b,
                         Tail(rest), console.choice, got)
    /\ UNCHANGED <<pc, db, loaded, runs, report, returned>>

\* choice == 0 at the test of the loop: db_close(db); return 0;
MenuLeave ==
    /\ pc = "menu"
    /\ console.at = "main"
    /\ ~console.failed
    /\ console.choice = 0
    /\ pc' = "off"
    /\ \E ub \in ReleasedOutcomes : db' = db_close(db, ub)
    /\ last' = Last("exit", "", "", "", <<Call("db_close", TRUE)>>)
    /\ report' = NoReport
    /\ returned' = <<0>>
    /\ UNCHANGED <<file, data, loaded, nops, runs, console>>

NextConsole ==
    \/ Answer
    \/ EndInput
    \/ MenuTurn
    \/ ClearInput
    \/ PromptTurn
    \/ MenuLeave

SpecConsole == InitOps /\ [][NextConsole]_vars

\* the process runs: a step of the program that can be taken is taken; the
\* user need not type
FairConsole ==
    /\ SpecConsole
    /\ WF_vars(MenuTurn)
    /\ WF_vars(ClearInput)
    /\ WF_vars(PromptTurn)
    /\ WF_vars(MenuLeave)

(***************************************************************************)
(* The views.  SpecReport starts in the menu loop over a store and a       *)
(* mirror that hold the seeded students and courses and up to MaxGrades    *)
(* enrollments with entered marks, and takes the two views that print      *)
(* weighted scores.                                                        *)
(***************************************************************************)
MaxGrades == 2

ReportRolls == {"S001", "S002"}
ReportCodes == {"MTH101", "SCI101"}
ReportMarks == {<<60, 60>>, <<90, 90>>, <<75, 88>>, <<1, 71>>, <<50, 50>>, <<0, 0>>}
ReportLines == {"S001", "S002", "S003", "S010", ""}

\* the grades tables of at most n rows over the pairs and marks above
RECURSIVE GradeTables(_)
GradeTables(n) ==
    IF n = 0 THEN {<<>>}
    ELSE LET shorter == GradeTables(n - 1)
         IN  shorter \cup
             {Append(t, Grade(r, c, D(m[1]), D(m[2]))) :
                 t \in {x \in shorter : Len(x) = n - 1},
                 r \in ReportRolls, c \in ReportCodes, m \in ReportMarks}

InitReport ==
    /\ pc = "menu"
    /\ db = db_open("none").db
    /\ \E t \in {x \in GradeTables(MaxGrades) : Cardinality(PairsOf(x)) = Len(x)} :
          /\ file = [tables |-> TRUE, students |-> seed_students,
                     courses |-> seed_courses, grades |-> t]
          /\ data = [all_students |-> seed_students, all_courses |-> seed_courses,
                     all_grades |-> t]
    /\ loaded = TRUE
    /\ last = Last("none", "", "", "", <<>>)
    /\ nops = 0
    /\ runs = 1
    /\ report = NoReport
    /\ returned = <<>>
    /\ console = NoConsole

\* choice == 7: std::getline(std::cin, r); student_report(data, r)
StudentReport ==
    /\ pc = "menu"
    /\ nops < MaxOps
    /\ nops' = nops + 1
    /\ \E r \in ReportLines :
          /\ report' = student_report(data, r)
          /\ last' = Last("student_report", r, "", "", <<>>)
    /\ UNCHANGED <<pc, db, file, data, loaded, runs, returned, console>>

\* choice == 13: show_enrollments(data)
ShowEnrollments ==
    /\ pc = "menu"
    /\ nops < MaxOps
    /\ nops' = nops + 1
    /\ report' = show_enrollments(data)
    /\ last' = Last("show_enrollments", "", "", "", <<>>)
    /\ UNCHANGED <<pc, db, file, data, loaded, runs, returned, console>>

NextReport ==
    \/ StudentReport
    \/ ShowEnrollments

SpecReport == InitReport /\ [][NextReport]_vars

\* student_report on a mirror that lacks students of its grades: the mirror
\* after a db_load_all whose scan of students ended behind the first row.
\* SpecReportCut takes the report of choice == 7 on such mirrors.
InitReportCut ==
    /\ pc = "menu"
    /\ db = db_open("none").db
    /\ \E t \in {x \in GradeTables(MaxGrades) : Cardinality(PairsOf(x)) = Len(x)} :
          /\ file = [tables |-> TRUE, students |-> seed_students,
                     courses |-> seed_courses, grades |-> t]
          /\ data = [all_students |-> SubSeq(seed_students, 1, 1),
                     all_courses |-> seed_courses, all_grades |-> t]
    /\ loaded = FALSE
    /\ last = Last("none", "", "", "", <<>>)
    /\ nops = 0
    /\ runs = 1
    /\ report = NoReport
    /\ returned = <<>>
    /\ console = NoConsole

SpecReportCut == InitReportCut /\ [][StudentReport]_vars

(***************************************************************************)
(* Properties.                                                             *)
(***************************************************************************)
StoreFns ==
    {"db_add_student", "db_add_course", "db_enroll", "db_enter_marks",
     "db_update_student", "db_update_course", "db_delete_student",
     "db_delete_course", "db_delete_enrollment"}

MirrorFns ==
    {"add_student", "add_course", "enroll_student", "enter_marks",
     "apply_student_update", "apply_course_update", "remove_student",
     "remove_course", "remove_enrollment"}

\* the store function that main calls before mirror function m
StoreFnFor(m) ==
    CASE m = "add_student" -> "db_add_student"
      [] m = "add_course" -> "db_add_course"
      [] m = "enroll_student" -> "db_enroll"
      [] m = "enter_marks" -> "db_enter_marks"
      [] m = "apply_student_update" -> "db_update_student"
      [] m = "apply_course_update" -> "db_update_course"
      [] m = "remove_student" -> "db_delete_student"
      [] m = "remove_course" -> "db_delete_course"
      [] m = "remove_enrollment" -> "db_delete_enrollment"

MenuOps ==
    {"add_student", "add_course", "enroll", "enter_marks", "edit_student",
     "edit_course", "delete_student", "delete_course", "delete_enrollment"}

\* the step just taken made both calls and both returned true
BothOk(l, sfn, mfn) == l.calls = <<Call(sfn, TRUE), Call(mfn, TRUE)>>

\* no two entries of a sequence of keys are equal
Unique(keys) ==
    \A i, j \in 1..Len(keys) : keys[i] = keys[j] => i = j

\* C1: mirror fidelity (P1).  Whenever main is in its menu loop with a
\* mirror that db_load_all loaded completely, the mirror holds exactly the
\* student rows, the course rows and the enrollment rows with their marks
\* that the store holds, each once.
C1_MirrorFidelity ==
    (pc = "menu" /\ loaded) =>
        /\ RowsOf(data.all_students) = RowsOf(file.students)
        /\ RowsOf(data.all_courses) = RowsOf(file.courses)
        /\ RowsOf(data.all_grades) = RowsOf(file.grades)
        /\ Len(data.all_students) = Len(file.students)
        /\ Len(data.all_courses) = Len(file.courses)
        /\ Len(data.all_grades) = Len(file.grades)

\* two menu actions have been applied to store and mirror, the second an edit
C1_Witness ==
    /\ pc = "menu"
    /\ loaded
    /\ nops = 2
    /\ BothOk(last, "db_update_student", "apply_student_update")
    /\ \E i \in 1..Len(data.all_students) : data.all_students[i].name = "Zed"

\* C2: no partial writes (P2).  In every menu action whose store call
\* returns false the mirror after the action equals the mirror before it.
C2_NoPartialWrites ==
    [][ ( /\ last'.op \in MenuOps
          /\ Len(last'.calls) > 0
          /\ last'.calls[1].fn \in StoreFns
          /\ ~last'.calls[1].ok )
        => data' = data ]_vars

\* a store call of a menu action has just returned false
C2_Witness ==
    /\ pc = "menu"
    /\ last.op = "delete_student"
    /\ last.calls = <<Call("db_delete_student", FALSE)>>
    /\ Len(data.all_grades) > 0

\* C3: write ordering.  In every menu action that calls anything, the first
\* call is the store call; a mirror function is only ever called second,
\* right after its own store function returned true.
C3_WriteOrdering ==
    /\ (last.op \in MenuOps /\ Len(last.calls) > 0) => last.calls[1].fn \in StoreFns
    /\ \A i \in 1..Len(last.calls) :
          last.calls[i].fn \in MirrorFns =>
              /\ i = 2
              /\ last.calls[1] = Call(StoreFnFor(last.calls[i].fn), TRUE)

\* an enroll has just called db_enroll and then enroll_student
C3_Witness ==
    /\ last.op = "enroll"
    /\ last.calls = <<Call("db_enroll", TRUE), Call("enroll_student", TRUE)>>

\* C4: student cascade equivalence (P3).  A successful delete of student X
\* removes, from the store and from the mirror, student X and exactly the
\* enrollments whose roll_no is X; the other students, the courses and the
\* other enrollments stay as they are.
C4_StudentCascade ==
    [][ ( /\ last'.op = "delete_student"
          /\ BothOk(last', "db_delete_student", "remove_student") )
        => LET X == last'.roll IN
           /\ X \in RollsOf(file.students)
           /\ X \in RollsOf(data.all_students)
           /\ file'.students = SelectSeq(file.students, LAMBDA s : s.roll_no # X)
           /\ file'.grades = SelectSeq(file.grades, LAMBDA g : g.roll_no # X)
           /\ file'.courses = file.courses
           /\ data'.all_students = SelectSeq(data.all_students, LAMBDA s : s.roll_no # X)
           /\ data'.all_grades = SelectSeq(data.all_grades, LAMBDA g : g.roll_no # X)
           /\ data'.all_courses = data.all_courses ]_vars

\* S001 has just been deleted and its two seeded enrollments went with it
C4_Witness ==
    /\ last.op = "delete_student"
    /\ last.roll = "S001"
    /\ BothOk(last, "db_delete_student", "remove_student")
    /\ loaded
    /\ PairsOf(file.grades) = {<<"S002", "ENG101">>, <<"S003", "MTH101">>}
    /\ PairsOf(data.all_grades) = {<<"S002", "ENG101">>, <<"S003", "MTH101">>}

\* C5: course cascade equivalence (P3, scenario 4).  A successful delete of
\* course C removes, from the store and from the mirror, course C and
\* exactly the enrollments whose course_code is C; the other courses, the
\* students and the other enrollments stay as they are.
C5_CourseCascade ==
    [][ ( /\ last'.op = "delete_course"
          /\ BothOk(last', "db_delete_course", "remove_course") )
        => LET C == last'.code IN
           /\ C \in CodesOf(file.courses)
           /\ C \in CodesOf(data.all_courses)
           /\ file'.courses = SelectSeq(file.courses, LAMBDA c : c.code # C)
           /\ file'.grades = SelectSeq(file.grades, LAMBDA g : g.course_code # C)
           /\ file'.students = file.students
           /\ data'.all_courses = SelectSeq(data.all_courses, LAMBDA c : c.code # C)
           /\ data'.all_grades = SelectSeq(data.all_grades, LAMBDA g : g.course_code # C)
           /\ data'.all_students = data.all_students ]_vars

\* MTH101 has just been deleted and its two seeded enrollments went with it
C5_Witness ==
    /\ last.op = "delete_course"
    /\ last.code = "MTH101"
    /\ BothOk(last, "db_delete_course", "remove_course")
    /\ loaded
    /\ PairsOf(file.grades) = {<<"S001", "SCI101">>, <<"S002", "ENG101">>}
    /\ PairsOf(data.all_grades) = {<<"S001", "SCI101">>, <<"S002", "ENG101">>}

\* the step just taken was a direct call of fn
Called(l, fn) == l.op = "call" /\ l.calls[1].fn = fn

\* the step just taken, a menu action or a direct call, changed nothing and
\* did not report success
Refused(l, f1, f2, d1, d2, okmsg) ==
    /\ f2 = f1
    /\ d2 = d1
    /\ l.op \in MenuOps => l.msg # okmsg
    /\ \A i \in 1..Len(l.calls) : ~l.calls[i].ok

\* C6: identifier uniqueness (P4).  No state holds two students with one
\* roll_no or two courses with one code, in the store or in the mirror; and
\* an add of a student or a course whose identifier is present fails and
\* changes nothing: db_add_student and db_add_course return false when the
\* store has it, add_student and add_course return false when the mirror
\* has it, and the menu's add fails when either has it.
C6_Uniqueness ==
    /\ [](/\ Unique([i \in 1..Len(file.students) |-> file.students[i].roll_no])
          /\ Unique([i \in 1..Len(file.courses) |-> file.courses[i].code])
          /\ Unique([i \in 1..Len(data.all_students) |-> data.all_students[i].roll_no])
          /\ Unique([i \in 1..Len(data.all_courses) |-> data.all_courses[i].code]))
    /\ [][ /\ (Called(last', "db_add_student") /\ last'.roll \in RollsOf(file.students))
                => Refused(last', file, file', data, data', "")
           /\ (Called(last', "add_student") /\ last'.roll \in RollsOf(data.all_students))
                => Refused(last', file, file', data, data', "")
           /\ (Called(last', "db_add_course") /\ last'.code \in CodesOf(file.courses))
                => Refused(last', file, file', data, data', "")
           /\ (Called(last', "add_course") /\ last'.code \in CodesOf(data.all_courses))
                => Refused(last', file, file', data, data', "")
           /\ (last'.op = "add_student"
                 /\ last'.roll \in RollsOf(file.students) \cup RollsOf(data.all_students))
                => Refused(last', file, file', data, data', "Student added (saved to DB).")
           /\ (last'.op = "add_course"
                 /\ last'.code \in CodesOf(file.courses) \cup CodesOf(data.all_courses))
                => Refused(last', file, file', data, data', "Course added (saved to DB).")
       ]_vars

\* db_add_student has just been called with the roll_no of a student that
\* the store holds (scenario 1, the second add)
C6_Witness ==
    /\ Called(last, "db_add_student")
    /\ last.calls = <<Call("db_add_student", FALSE)>>
    /\ last.roll = "S010"
    /\ Len(SelectSeq(file.students, LAMBDA x : x.roll_no = "S010")) = 1

\* C7: at most one enrollment per pair.  No state holds two enrollments of
\* one (roll_no, course_code), in the store or in the mirror; and enrolling
\* a pair that is enrolled fails and changes nothing, so the pair keeps its
\* one enrollment and its marks: db_enroll returns false when the store has
\* the pair, enroll_student returns false when the mirror has it, and the
\* menu's enroll fails when either has it.
C7_OneEnrollmentPerPair ==
    /\ [](/\ Unique([i \in 1..Len(file.grades) |-> <<file.grades[i].roll_no, file.grades[i].course_code>>])
          /\ Unique([i \in 1..Len(data.all_grades) |-> <<data.all_grades[i].roll_no, data.all_grades[i].course_code>>]))
    /\ [][ /\ (Called(last', "db_enroll")
                 /\ <<last'.roll, last'.code>> \in PairsOf(file.grades))
                => Refused(last', file, file', data, data', "")
           /\ (Called(last', "enroll_student")
                 /\ <<last'.roll, last'.code>> \in PairsOf(data.all_grades))
                => Refused(last', file, file', data, data', "")
           /\ (last'.op = "enroll"
                 /\ <<last'.roll, last'.code>> \in
                        PairsOf(file.grades) \cup PairsOf(data.all_grades))
                => Refused(last', file, file', data, data',
                           "Enrollment success (saved to DB).")
       ]_vars

\* the menu's enroll has just been refused for S001 in MTH101 (scenario 2),
\* which still has its one seeded enrollment with its marks
C7_Witness ==
    /\ last.op = "enroll"
    /\ last.roll = "S001"
    /\ last.code = "MTH101"
    /\ last.msg = "Already enrolled."
    /\ SelectSeq(file.grades, LAMBDA g : g.roll_no = "S001" /\ g.course_code = "MTH101")
         = <<Grade("S001", "MTH101", D(75), D(88))>>
    /\ SelectSeq(data.all_grades, LAMBDA g : g.roll_no = "S001" /\ g.course_code = "MTH101")
         = <<Grade("S001", "MTH101", D(75), D(88))>>

\* C8: enrollment needs both parents.  db_enroll returns true, and the
\* menu's enroll succeeds, only when the store holds student roll and course
\* code at that moment; when either is absent db_enroll returns false and
\* neither the store nor the mirror gets an enrollment.
C8_EnrollNeedsParents ==
    [][ LET absent == \/ last'.roll \notin RollsOf(file.students)
                      \/ last'.code \notin CodesOf(file.courses)
        IN  /\ (Called(last', "db_enroll") /\ absent)
                 => Refused(last', file, file', data, data', "")
            /\ (last'.op = "enroll" /\ last'.roll # "" /\ absent)
                 => Refused(last', file, file', data, data',
                            "Enrollment success (saved to DB).")
            /\ ((Called(last', "db_enroll") \/ last'.op = "enroll")
                   /\ Len(last'.calls) > 0 /\ last'.calls[1] = Call("db_enroll", TRUE))
                 => ~absent
      ]_vars

\* db_enroll has just refused a pair whose student the store does not hold
C8_Witness ==
    /\ Called(last, "db_enroll")
    /\ last.calls = <<Call("db_enroll", FALSE)>>
    /\ last.roll \notin RollsOf(file.students)
    /\ last.code \in CodesOf(file.courses)
    /\ <<last.roll, last.code>> \notin PairsOf(file.grades)

\* a mark that is a number within [0, 100]
InRange(d) == ~d.nan /\ d.v >= 0 /\ d.v <= 100

\* C9: mark bounds (P5).  In every state of the program every enrollment of
\* the store and of the mirror has its internal_mark and its final_mark
\* within [0, 100].
C9_MarkBounds ==
    /\ \A i \in 1..Len(file.grades) :
          InRange(file.grades[i].internal_mark) /\ InRange(file.grades[i].final_mark)
    /\ \A i \in 1..Len(data.all_grades) :
          InRange(data.all_grades[i].internal_mark) /\ InRange(data.all_grades[i].final_mark)

\* marks have just been entered and persisted
C9_Witness ==
    /\ last.op = "enter_marks"
    /\ BothOk(last, "db_enter_marks", "enter_marks")
    /\ \E i \in 1..Len(file.grades) :
          /\ file.grades[i].roll_no = last.roll
          /\ file.grades[i].course_code = last.code
          /\ file.grades[i].internal_mark = D(100)
          /\ file.grades[i].final_mark = D(100)

\* C10: marks for a non-enrollment (scenario 5).  Entering marks for a pair
\* that has no enrollment fails and changes nothing, so it creates no
\* enrollment: db_enter_marks returns false when the store has no row for the
\* pair, enter_marks returns false when the mirror has none, and the menu's
\* enter marks fails when either has none.
C10_MarksNeedEnrollment ==
    [][ /\ (Called(last', "db_enter_marks")
              /\ <<last'.roll, last'.code>> \notin PairsOf(file.grades))
             => Refused(last', file, file', data, data', "")
        /\ (Called(last', "enter_marks")
              /\ <<last'.roll, last'.code>> \notin PairsOf(data.all_grades))
             => Refused(last', file, file', data, data', "")
        /\ (last'.op = "enter_marks" /\ last'.roll # ""
              /\ <<last'.roll, last'.code>> \notin
                     PairsOf(file.grades) \cap PairsOf(data.all_grades))
             => Refused(last', file, file', data, data', "Marks saved (persisted to DB).")
      ]_vars

\* db_enter_marks has just returned false for a pair without a row, with
\* marks that are in range
C10_Witness ==
    /\ Called(last, "db_enter_marks")
    /\ last.calls = <<Call("db_enter_marks", FALSE)>>
    /\ <<last.roll, last.code>> \notin PairsOf(file.grades)
    /\ last.roll = "S010"

\* the lines of the view just printed
Printed == {report.lines[k] : k \in 1..Len(report.lines)}

\* C11: weighted score (P6, scenario 3), with the example's value put right.
\* Every weighted score a view prints for an enrollment with marks i and f
\* in 0..100 is 0.3*i + 0.7*f, that is 10*weighted = 3*i + 7*f; for i = 75
\* and f = 88 it is 84.1.
C11_Weighted ==
    \A l \in Printed :
        (InRange(l.internal) /\ InRange(l.final)) =>
            /\ l.grade.tenths = 3 * l.internal.v + 7 * l.final.v
            /\ (l.internal.v = 75 /\ l.final.v = 88) => l.grade.tenths = 841

\* C11 as stated: the same, with 82.1 for i = 75 and f = 88
C11_AsStated ==
    \A l \in Printed :
        (InRange(l.internal) /\ InRange(l.final)) =>
            /\ l.grade.tenths = 3 * l.internal.v + 7 * l.final.v
            /\ (l.internal.v = 75 /\ l.final.v = 88) => l.grade.tenths = 821

\* the enrollments view has printed S001 in MTH101 with marks 75 and 88
C11_Witness ==
    /\ report.op = "show_enrollments"
    /\ \E k \in 1..Len(report.lines) :
          /\ data.all_grades[k].roll_no = "S001"
          /\ report.lines[k].title = "MTH101"
          /\ report.lines[k].internal = D(75)
          /\ report.lines[k].final = D(88)
          /\ report.lines[k].grade.tenths = 841

\* the sum of the weighted scores, in tenths, of the grades at the indexes S
RECURSIVE SumTenths(_, _)
SumTenths(grades, S) ==
    IF S = {} THEN 0
    ELSE LET k == CHOOSE x \in S : TRUE
         IN  weighted(grades[k]).tenths + SumTenths(grades, S \ {k})

\* C12: report aggregates (scenario 6).  A report for a student of the
\* mirror prints a line for each enrollment of the mirror with that roll_no
\* and for no other, in the mirror's order, with the course's title, the
\* marks and the weighted score; when there is at least one it prints the
\* count n of them, the average (the sum of their weighted scores over n),
\* and passed, the number of them whose weighted score is >= 50.0: weighted
\* scores 60.0 and 90.0 give average 75.0, count 2, passed 2/2.  Printing a
\* report changes neither the mirror nor the store.
C12_ReportAggregates ==
    /\ []((report.op = "student_report" /\ exists_student(data, last.roll)) =>
            LET mine == {k \in 1..Len(data.all_grades) :
                            data.all_grades[k].roll_no = last.roll}
                rows == SelectSeq(data.all_grades, LAMBDA g : g.roll_no = last.roll)
            IN  /\ report.found
                /\ Len(report.lines) = Cardinality(mine)
                /\ \A k \in 1..Len(rows) :
                      /\ report.lines[k].internal = rows[k].internal_mark
                      /\ report.lines[k].final = rows[k].final_mark
                      /\ report.lines[k].grade = weighted(rows[k])
                      /\ \E c \in 1..Len(data.all_courses) :
                            /\ data.all_courses[c].code = rows[k].course_code
                            /\ data.all_courses[c].title = report.lines[k].title
                /\ report.aggregate <=> mine # {}
                /\ report.n = Cardinality(mine)
                /\ report.total = SumTenths(data.all_grades, mine)
                /\ report.passed =
                      Cardinality({k \in mine : AtLeast50(weighted(data.all_grades[k]))})
                /\ ([k \in 1..Len(rows) |-> weighted(rows[k]).tenths] = <<600, 900>>) =>
                      /\ report.total = 750 * report.n
                      /\ report.n = 2
                      /\ report.passed = 2)
    /\ [][last'.op = "student_report" => (data' = data /\ file' = file)]_vars

\* a report has been printed for a student with two enrollments whose
\* weighted scores are 60.0 and 90.0
C12_Witness ==
    /\ report.op = "student_report"
    /\ report.found
    /\ Len(report.lines) = 2
    /\ report.lines[1].grade.tenths = 600
    /\ report.lines[2].grade.tenths = 900
    /\ report.n = 2
    /\ report.total = 1500
    /\ report.passed = 2

\* the step just taken was a launch in which db_open succeeded
Launched(l) == l.op = "launch" /\ Len(l.calls) >= 2

\* db_init_and_seed on store f when the engine reports no error of its own
InitOf(f) == db_init_and_seed(db_open("none").db, f, "none")

\* C13: initialisation is safe on every startup.  At every launch, over
\* whatever store the runs before it left behind, db_init_and_seed returns
\* true unless the engine reports an error of its own.
C13_InitAlwaysSucceeds ==
    [][Launched(last') => InitOf(file).ok]_vars

\* a seed enrollment names a student or a course that store f lacks
SeedParentMissing(f) ==
    \E i \in 1..Len(seed_grades) :
        \/ seed_grades[i].roll_no \notin RollsOf(f.students)
        \/ seed_grades[i].course_code \notin CodesOf(f.courses)

\* table `after` is table `before` left alone when it had rows, and the seed
\* rows when it had none
SeededIfEmpty(before, after, seed) ==
    IF before = <<>> THEN after = seed ELSE after = before

Succeeded(l, op, roll, code) ==
    /\ l.op = op
    /\ l.roll = roll
    /\ l.code = code
    /\ Len(l.calls) = 2
    /\ l.calls[1].ok
    /\ l.calls[2].ok

\* C15: deleted is terminal for the entity, not for its identity.  A
\* successful delete leaves the identity absent from the store and the
\* mirror, and nothing restores what was deleted; the identity is free
\* again, and it comes to exist again only by a later successful add or
\* enroll of that identity, which makes a new entity, or by a startup that
\* seeds the table because it is empty (and loads the mirror from the store).
C15_BackOnlyByAddOrSeed ==
    [][ /\ \A r \in RollsOf(file'.students) \ RollsOf(file.students) :
              \/ Succeeded(last', "add_student", r, "")
              \/ Launched(last') /\ file.students = <<>> /\ r \in RollsOf(seed_students)
        /\ \A r \in RollsOf(data'.all_students) \ RollsOf(data.all_students) :
              \/ Succeeded(last', "add_student", r, "")
              \/ Launched(last') /\ r \in RollsOf(file'.students)
        /\ \A c \in CodesOf(file'.courses) \ CodesOf(file.courses) :
              \/ Succeeded(last', "add_course", "", c)
              \/ Launched(last') /\ file.courses = <<>> /\ c \in CodesOf(seed_courses)
        /\ \A c \in CodesOf(data'.all_courses) \ CodesOf(data.all_courses) :
              \/ Succeeded(last', "add_course", "", c)
              \/ Launched(last') /\ c \in CodesOf(file'.courses)
        /\ \A e \in PairsOf(file'.grades) \ PairsOf(file.grades) :
              \/ Succeeded(last', "enroll", e[1], e[2])
              \/ Launched(last') /\ file.grades = <<>> /\ e \in PairsOf(seed_grades)
        /\ \A e \in PairsOf(data'.all_grades) \ PairsOf(data.all_grades) :
              \/ Succeeded(last', "enroll", e[1], e[2])
              \/ Launched(last') /\ e \in PairsOf(file'.grades)
        /\ \A r \in RollLines :
              Succeeded(last', "delete_student", r, "") =>
                 r \notin RollsOf(file'.students) \cup RollsOf(data'.all_students)
        /\ \A c \in CodeLines :
              Succeeded(last', "delete_course", "", c) =>
                 c \notin CodesOf(file'.courses) \cup CodesOf(data'.all_courses)
        /\ \A r \in RollLines, c \in CodeLines :
              Succeeded(last', "delete_enrollment", r, c) =>
                 <<r, c>> \notin PairsOf(file'.grades) \cup PairsOf(data'.all_grades)
      ]_vars

\* C15 as stated, for the step that follows the delete: the identity that
\* the last step deleted does not exist in the store or the mirror after
\* the next step either, whatever that step is.
C15_AsStated ==
    [][ /\ \A r \in RollLines :
              Succeeded(last, "delete_student", r, "") =>
                 r \notin RollsOf(file'.students) \cup RollsOf(data'.all_students)
        /\ \A c \in CodeLines :
              Succeeded(last, "delete_course", "", c) =>
                 c \notin CodesOf(file'.courses) \cup CodesOf(data'.all_courses)
        /\ \A r \in RollLines, c \in CodeLines :
              Succeeded(last, "delete_enrollment", r, c) =>
                 <<r, c>> \notin PairsOf(file'.grades) \cup PairsOf(data'.all_grades)
      ]_vars

\* S001 was deleted and has been added again: the store and the mirror hold
\* a new student with that roll_no, last in the table, and none of the
\* enrollments the first one had
C15_Witness ==
    /\ Succeeded(last, "add_student", "S001", "")
    /\ file.students[Len(file.students)] = Student("S001", "Zed", "1 Test Rd", "0215550000")
    /\ data.all_students = file.students
    /\ RollsOf(file.students) = RollsOf(seed_students)
    /\ "S001" \notin {file.grades[i].roll_no : i \in 1..Len(file.grades)}

\* the names of the calls a step made, in order
FnsOf(l) == {l.calls[i].fn : i \in 1..Len(l.calls)}

\* the launch that l records ended at the open or at the initialisation
StartupFailed(l) ==
    /\ l.op = "launch"
    /\ \/ l.calls[1] = Call("db_open", FALSE)
       \/ Len(l.calls) >= 2 /\ l.calls[2] = Call("db_init_and_seed", FALSE)

\* C16: a launch whose db_open or db_init_and_seed returns false ends the
\* process with exit code 1: db_load_all is not called, the mirror stays
\* empty, the menu loop is not entered, none of the store or mirror
\* functions of the menu is called, and a failed open leaves the file as it
\* was; the only step that can follow is another launch.  A launch that does
\* enter the menu has an open connection and the three tables.
C16_FatalStartup ==
    /\ [](returned = <<1>> =>
             /\ StartupFailed(last)
             /\ pc = "off"
             /\ data = EmptyStore
             /\ ~loaded
             /\ FnsOf(last) \cap (StoreFns \cup MirrorFns \cup {"db_load_all"}) = {})
    /\ [][ /\ (pc = "off" /\ runs' # runs /\ StartupFailed(last')) =>
                 /\ returned' = <<1>>
                 /\ pc' = "off"
                 /\ last'.calls[1] = Call("db_open", FALSE) => file' = file
           /\ (pc = "off" /\ runs' # runs /\ pc' = "menu") =>
                 /\ db'.handle = "open"
                 /\ file'.tables
                 /\ returned' = <<>>
           /\ returned = <<1>> => last'.op = "launch"
         ]_vars

\* a launch failed at the initialisation: the process returned 1 with the
\* connection closed and nothing loaded
C16_Witness ==
    /\ returned = <<1>>
    /\ last.calls = <<Call("db_open", TRUE), Call("db_init_and_seed", FALSE),
                      Call("db_close", TRUE)>>
    /\ last.msg = "Could not initialize database."
    /\ pc = "off"
    /\ data = EmptyStore

\* C17: whenever main has returned, the handle that sqlite3_open produced
\* in this run, if it produced one, has been closed, and closed once; and
\* the step that returned called no store function after db_close.
C17_HandleLifecycle ==
    Len(returned) > 0 =>
        /\ db.handle \in {"null", "closed"}
        /\ \A i \in 1..Len(last.calls) :
              last.calls[i].fn = "db_close" => i = Len(last.calls)

\* C18: db_close on a handle that was never opened (null) or that has been
\* released already does nothing: the connection is left as it was, and
\* nothing is released a second time.
C18_CloseRepeatable ==
    [][ (Called(last', "db_close") /\ db.handle \in {"null", "closed"}) =>
            /\ db' = db
            /\ db'.handle # "freed_twice"
      ]_vars

\* C20: in the program, a mutating menu action whose store call returns
\* true goes on to its mirror call, and that call returns true as well, in
\* every reachable state, those after a db_load_all that failed included.
C20_MirrorFollowsStore ==
    (last.op \in MenuOps /\ Len(last.calls) > 0) =>
        /\ last.calls[1].fn \in StoreFns
        /\ last.calls[1].ok =>
              /\ Len(last.calls) = 2
              /\ last.calls[2].fn \in MirrorFns
              /\ StoreFnFor(last.calls[2].fn) = last.calls[1].fn
              /\ last.calls[2].ok

\* a student was added while the mirror and the store differ, because the
\* load at startup failed part way: both calls returned true
C20_Witness ==
    /\ ~loaded
    /\ data.all_courses # file.courses
    /\ last.op = "add_student"
    /\ BothOk(last, "db_add_student", "add_student")

\* what the closing statement of a branch prints when its store call
\* returns false
StoreFailureMsg(op) ==
    CASE op = "add_student" ->
            WriteAddStudent(CHOOSE s \in TestStudents : TRUE, FALSE).last.msg
      [] op = "add_course" ->
            WriteAddCourse(CHOOSE c \in TestCourses : TRUE, FALSE).last.msg
      [] op = "enroll" -> WriteEnroll("S001", "MTH101", FALSE).last.msg
      [] op = "enter_marks" ->
            WriteEnterMarks("S001", "MTH101", D(100), D(100), FALSE).last.msg
      [] op = "edit_student" ->
            WriteEditStudent(CHOOSE s \in TestStudents : TRUE, FALSE).last.msg
      [] op = "edit_course" ->
            WriteEditCourse(CHOOSE c \in TestCourses : TRUE, FALSE).last.msg
      [] op = "delete_student" -> WriteDeleteStudent("S001", FALSE).last.msg
      [] op = "delete_course" -> WriteDeleteCourse("MTH101", FALSE).last.msg
      [] op = "delete_enrollment" ->
            WriteDeleteEnrollment("S001", "MTH101", FALSE).last.msg

StoreFnOf(op) ==
    CASE op = "add_student" -> "db_add_student"
      [] op = "add_course" -> "db_add_course"
      [] op = "enroll" -> "db_enroll"
      [] op = "enter_marks" -> "db_enter_marks"
      [] op = "edit_student" -> "db_update_student"
      [] op = "edit_course" -> "db_update_course"
      [] op = "delete_student" -> "db_delete_student"
      [] op = "delete_course" -> "db_delete_course"
      [] op = "delete_enrollment" -> "db_delete_enrollment"

\* store f stands against the write of the action l records: the key to
\* insert is there, or the row to change or refer to is not
StoreConflict(l, f) ==
    CASE l.op = "add_student" -> l.roll \in RollsOf(f.students)
      [] l.op = "add_course" -> l.code \in CodesOf(f.courses)
      [] l.op = "enroll" ->
            \/ <<l.roll, l.code>> \in PairsOf(f.grades)
            \/ l.roll \notin RollsOf(f.students)
            \/ l.code \notin CodesOf(f.courses)
      [] l.op \in {"enter_marks", "delete_enrollment"} ->
            <<l.roll, l.code>> \notin PairsOf(f.grades)
      [] l.op \in {"edit_student", "delete_student"} ->
            l.roll \notin RollsOf(f.students)
      [] l.op \in {"edit_course", "delete_course"} ->
            l.code \notin CodesOf(f.courses)
      [] OTHER -> FALSE

\* C21: the store is the final arbiter.  When something other than the
\* menu has changed the store so that it stands against an action's write
\* (it holds the roll_no, the code or the enrollment to insert, or no longer
\* holds the student, course or enrollment the write refers to) and the
\* action's checks on the mirror let it through to its store call, the store
\* call returns false, the mirror function is not called, and the mirror and
\* the store are left as they were.
C21_StoreArbiter ==
    [][ ( /\ last'.op \in MenuOps
          /\ Len(last'.calls) > 0
          /\ StoreConflict(last', file) ) =>
            /\ last'.calls = <<Call(StoreFnOf(last'.op), FALSE)>>
            /\ data' = data
            /\ file' = file
      ]_vars

\* the student was deleted from the store behind the mirror's back; the
\* enroll action passed its three checks on the mirror and its INSERT failed
\* on the foreign key
C21_Witness ==
    /\ last.op = "enroll"
    /\ last.calls = <<Call("db_enroll", FALSE)>>
    /\ last.roll \notin RollsOf(file.students)
    /\ last.code \in CodesOf(file.courses)
    /\ exists_student(data, last.roll)
    /\ ~already_enrolled(data, last.roll, last.code)

\* mirror d stands against the request of the action l records: what the
\* branch's check before the store call looks for
MirrorConflict(l, d) ==
    CASE l.op = "add_student" -> l.roll \in RollsOf(d.all_students)
      [] l.op = "add_course" -> l.code \in CodesOf(d.all_courses)
      [] l.op = "enroll" ->
            \/ l.roll \notin RollsOf(d.all_students)
            \/ l.code \notin CodesOf(d.all_courses)
            \/ <<l.roll, l.code>> \in PairsOf(d.all_grades)
      [] l.op \in {"enter_marks", "delete_enrollment"} ->
            <<l.roll, l.code>> \notin PairsOf(d.all_grades)
      [] l.op \in {"edit_student", "delete_student"} ->
            l.roll \notin RollsOf(d.all_students)
      [] l.op \in {"edit_course", "delete_course"} ->
            l.code \notin CodesOf(d.all_courses)
      [] OTHER -> FALSE

\* what a branch prints when its check on the mirror refuses the request
RejectionMsgs ==
    {"That roll is already used.", "Course code already exists.",
     "Student does not exist.", "Course does not exist.", "Already enrolled.",
     "Not enrolled in that course.", "Student not found.", "Course not found."}

\* C22: every mutating menu action checks the mirror before it calls the
\* store.  A store call is made only when the mirror passes the check; when
\* the mirror holds the roll_no or code to add, lacks the student or course
\* to enroll, edit or delete, holds the pair to enroll or lacks the pair to
\* mark or delete, the action makes no store call and no mirror call and
\* leaves the store and the mirror as they were, whatever the store holds.
C22_PreflightFirst ==
    [][ /\ ( last'.op \in MenuOps /\ MirrorConflict(last', data) ) =>
              /\ last'.calls = <<>>
              /\ file' = file
              /\ data' = data
        /\ ( last'.op \in MenuOps /\ last'.msg \in RejectionMsgs ) =>
              /\ MirrorConflict(last', data)
              /\ last'.calls = <<>>
        /\ ( last'.op \in MenuOps /\ Len(last'.calls) > 0 ) =>
              /\ ~MirrorConflict(last', data)
              /\ last'.calls[1].fn = StoreFnOf(last'.op)
      ]_vars

\* the add was refused on the mirror alone: the store no longer holds the
\* roll_no and would have taken the INSERT
C22_Witness ==
    /\ last.op = "add_student"
    /\ last.msg = "That roll is already used."
    /\ last.calls = <<>>
    /\ last.roll \in RollsOf(data.all_students)
    /\ last.roll \notin RollsOf(file.students)

\* students table (or vector) b is a with at most the record of roll
\* replaced, by a record of the same roll_no
SameButStudent(a, b, roll) ==
    /\ Len(b) = Len(a)
    /\ \A i \in 1..Len(a) :
          /\ b[i].roll_no = a[i].roll_no
          /\ a[i].roll_no # roll => b[i] = a[i]

\* courses table (or vector) b is a with at most the record of code
\* replaced, by a record of the same code
SameButCourse(a, b, code) ==
    /\ Len(b) = Len(a)
    /\ \A i \in 1..Len(a) :
          /\ b[i].code = a[i].code
          /\ a[i].code # code => b[i] = a[i]

\* C23: identity is immutable under update.  An edit of a student, by the
\* menu or by db_update_student and apply_student_update called directly,
\* leaves every roll_no where it was, every other student record, every
\* course and every enrollment as they were, in the store and in the
\* mirror; it can change only the name, address and contact of the one
\* record with the given roll_no.  The same holds for a course and its code.
C23_IdentityImmutable ==
    [][ /\ ( last'.op = "edit_student" \/ Called(last', "db_update_student")
                                       \/ Called(last', "apply_student_update") ) =>
              /\ SameButStudent(file.students, file'.students, last'.roll)
              /\ SameButStudent(data.all_students, data'.all_students, last'.roll)
              /\ file'.courses = file.courses /\ file'.grades = file.grades
              /\ data'.all_courses = data.all_courses
              /\ data'.all_grades = data.all_grades
        /\ ( last'.op = "edit_course" \/ Called(last', "db_update_course")
                                      \/ Called(last', "apply_course_update") ) =>
              /\ SameButCourse(file.courses, file'.courses, last'.code)
              /\ SameButCourse(data.all_courses, data'.all_courses, last'.code)
              /\ file'.students = file.students /\ file'.grades = file.grades
              /\ data'.all_students = data.all_students
              /\ data'.all_grades = data.all_grades
      ]_vars

\* S001 was edited through the menu: its three fields are new in the store
\* and in the mirror, its roll_no and its enrollments are the seeded ones
C23_Witness ==
    /\ last.op = "edit_student"
    /\ BothOk(last, "db_update_student", "apply_student_update")
    /\ file.students[1] = Student("S001", "Zed", "1 Test Rd", "0215550000")
    /\ data.all_students[1] = file.students[1]
    /\ file.students[2] = seed_students[2]
    /\ file.grades = seed_grades

\* C24: db_update_student, db_update_course, db_delete_student,
\* db_delete_course and db_delete_enrollment, when the engine runs their
\* statement to the end, return true exactly when the store holds a row
\* with the given identity, an update also when the record it writes equals
\* the row; when they return false the store is as it was.
C24_MissingRowFails ==
    [][ /\ ( Called(last', "db_update_student") \/ Called(last', "db_delete_student") ) =>
              /\ last'.calls[1].ok = (last'.roll \in RollsOf(file.students))
              /\ ~last'.calls[1].ok => file' = file
        /\ ( Called(last', "db_update_course") \/ Called(last', "db_delete_course") ) =>
              /\ last'.calls[1].ok = (last'.code \in CodesOf(file.courses))
              /\ ~last'.calls[1].ok => file' = file
        /\ Called(last', "db_delete_enrollment") =>
              /\ last'.calls[1].ok = (<<last'.roll, last'.code>> \in PairsOf(file.grades))
              /\ ~last'.calls[1].ok => file' = file
        /\ ( Called(last', "db_delete_student") /\ last'.calls[1].ok ) =>
              last'.roll \notin RollsOf(file'.students)
        /\ ( Called(last', "db_delete_course") /\ last'.calls[1].ok ) =>
              last'.code \notin CodesOf(file'.courses)
        /\ ( Called(last', "db_delete_enrollment") /\ last'.calls[1].ok ) =>
              <<last'.roll, last'.code>> \notin PairsOf(file'.grades)
      ]_vars

\* the first call was db_update_course with the seeded record of MTH101:
\* it returned true and the store is the seeded store still
C24_Witness ==
    /\ nops = 1
    /\ Called(last, "db_update_course")
    /\ last.code = "MTH101"
    /\ last.calls[1].ok
    /\ file = SeededStore

\* grades b is grades a without its one entry for (roll, code), the other
\* entries as they were and in their order
WithoutPair(a, b, roll, code) ==
    /\ Len(b) = Len(a) - 1
    /\ b = SelectSeq(a, LAMBDA g : ~(g.roll_no = roll /\ g.course_code = code))

\* C25: deleting one enrollment is local.  A successful delete of the
\* enrollment (roll, code), by the menu or by db_delete_enrollment or
\* remove_enrollment called directly, takes exactly that one enrollment out
\* of the store and of the mirror (of the one it was called on); all
\* students, all courses and all other enrollments, those of the same
\* student and of the same course included, are as they were.
C25_DeleteEnrollmentLocal ==
    [][ /\ ( last'.op = "delete_enrollment"
             /\ BothOk(last', "db_delete_enrollment", "remove_enrollment") ) =>
              /\ WithoutPair(file.grades, file'.grades, last'.roll, last'.code)
              /\ WithoutPair(data.all_grades, data'.all_grades, last'.roll, last'.code)
              /\ file'.students = file.students /\ file'.courses = file.courses
              /\ data'.all_students = data.all_students
              /\ data'.all_courses = data.all_courses
        /\ ( Called(last', "db_delete_enrollment") /\ last'.calls[1].ok ) =>
              /\ WithoutPair(file.grades, file'.grades, last'.roll, last'.code)
              /\ file'.students = file.students /\ file'.courses = file.courses
              /\ data' = data
        /\ ( Called(last', "remove_enrollment") /\ last'.calls[1].ok ) =>
              /\ WithoutPair(data.all_grades, data'.all_grades, last'.roll, last'.code)
              /\ data'.all_students = data.all_students
              /\ data'.all_courses = data.all_courses
              /\ file' = file
      ]_vars

\* the menu deleted S001's enrollment in MTH101: S001's enrollment in SCI101
\* and S003's in MTH101 are still there, with their marks
C25_Witness ==
    /\ last.op = "delete_enrollment"
    /\ last.roll = "S001" /\ last.code = "MTH101"
    /\ BothOk(last, "db_delete_enrollment", "remove_enrollment")
    /\ file.grades = <<seed_grades[2], seed_grades[3], seed_grades[4]>>
    /\ data.all_grades = file.grades
    /\ file.students = seed_students /\ file.courses = seed_courses

\* C26: enroll_student checks the mirror itself.  It returns false and
\* leaves the mirror as it was when the mirror has no student with the
\* roll_no, no course with the code, or an enrollment of the pair already;
\* otherwise it appends one enrollment of the pair with both marks 0 and
\* returns true.  The store is not touched.
C26_EnrollRechecks ==
    [][ Called(last', "enroll_student") =>
          /\ last'.calls[1].ok =
                ( /\ last'.roll \in RollsOf(data.all_students)
                  /\ last'.code \in CodesOf(data.all_courses)
                  /\ <<last'.roll, last'.code>> \notin PairsOf(data.all_grades) )
          /\ last'.calls[1].ok =>
                data' = [data EXCEPT !.all_grades =
                            Append(@, Grade(last'.roll, last'.code, D(0), D(0)))]
          /\ ~last'.calls[1].ok => data' = data
          /\ file' = file
      ]_vars

\* C26 as stated: enroll_student appends an enrollment with both marks 0
\* for every roll and code it is given, without a check.
C26_AsStated ==
    [][ Called(last', "enroll_student") =>
          /\ last'.calls[1].ok
          /\ data'.all_grades =
                Append(data.all_grades, Grade(last'.roll, last'.code, D(0), D(0)))
      ]_vars

\* enroll_student was called for S010, whom the mirror does not hold, in a
\* course it holds: it returned false and appended nothing
C26_Witness ==
    /\ nops = 1
    /\ Called(last, "enroll_student")
    /\ last.roll = "S010" /\ last.code = "MTH101"
    /\ ~last.calls[1].ok
    /\ data.all_grades = seed_grades

\* C27: a new enrollment starts at zero.  A successful enroll of (roll,
\* code), by the menu or by db_enroll called directly, adds to the store,
\* and the menu to the mirror as well, one enrollment of that pair with
\* internal_mark = 0 and final_mark = 0, after the ones that were there; the
\* marks of every other enrollment are as they were.
C27_EnrollStartsAtZero ==
    [][ /\ ( last'.op = "enroll" /\ BothOk(last', "db_enroll", "enroll_student") ) =>
              /\ file'.grades =
                    Append(file.grades, Grade(last'.roll, last'.code, D(0), D(0)))
              /\ data'.all_grades =
                    Append(data.all_grades, Grade(last'.roll, last'.code, D(0), D(0)))
        /\ ( Called(last', "db_enroll") /\ last'.calls[1].ok ) =>
              file'.grades =
                    Append(file.grades, Grade(last'.roll, last'.code, D(0), D(0)))
      ]_vars

\* the menu enrolled S002 in MTH101: the pair is the last enrollment of the
\* store and of the mirror, with marks 0 and 0, after the seeded four with
\* their seeded marks
C27_Witness ==
    /\ last.op = "enroll"
    /\ BothOk(last, "db_enroll", "enroll_student")
    /\ file.grades = Append(seed_grades, Grade("S002", "MTH101", D(0), D(0)))
    /\ data.all_grades = file.grades

DeleteOps == {"delete_student", "delete_course", "delete_enrollment"}

\* C28: deletes are applied only after confirmation, and cancelling changes
\* nothing.  A delete action calls the store only when the line read at its
\* confirmation was y or Y; with n there it makes no call.  A mutating
\* action that ends with Back or Exit, at whichever prompt, has made no call
\* and leaves the store and the mirror as they were.
C28_ConfirmThenApply ==
    [][ /\ ( last'.op \in DeleteOps /\ Len(last'.calls) > 0 ) =>
              last'.answer \in {"y", "Y"}
        /\ ( last'.op \in DeleteOps /\ last'.answer \in {"n", "N"} ) =>
              /\ last'.msg = "Back"
              /\ last'.calls = <<>>
        /\ ( last'.op \in MenuOps /\ last'.msg \in {"Back", "Exit"} ) =>
              /\ last'.calls = <<>>
              /\ file' = file
              /\ data' = data
        /\ ( last'.op \in MenuOps /\ last'.msg = "Back" ) => pc' = "menu"
      ]_vars

\* a delete got as far as its confirmation, which was answered n: nothing
\* was called, the seeded rows are all there and the menu goes on
C28_Witness ==
    /\ last.op = "delete_student"
    /\ last.answer = "n"
    /\ last.msg = "Back"
    /\ last.calls = <<>>
    /\ pc = "menu"
    /\ nops = 1
    /\ file = SeededStore
    /\ data.all_students = seed_students

\* C29: loading replaces, never accumulates.  After a call of db_load_all
\* that returns true the mirror holds exactly the rows of the store, each
\* once, whatever it held before the call; so a second call leaves the
\* mirror that the first one made.
C29_LoadReplaces ==
    [][ ( Called(last', "db_load_all") /\ last'.calls[1].ok ) =>
            data' = MirrorOf(file)
      ]_vars

\* C30: the edit prompt keeps the current value on Enter.  As stated: when
\* prompt_edit_string reads and the line in front of std::cin is empty (the
\* user pressed Enter and nothing else), it returns Ok with out equal to
\* current.
C30_EnterKeeps ==
    [][ ( /\ console.at = "prompt_edit_string"
          /\ console.cin # <<>>
          /\ Head(console.cin) = ""
          /\ Len(console'.cin) < Len(console.cin) ) =>
            ( /\ console'.at = "main"
              /\ console'.ctl = "Ok"
              /\ console'.out = console.current )
      ]_vars

\* C31: a failed menu read redisplays the menu.  As stated: once the read of
\* the menu choice has failed, the next turn of the loop shows the menu
\* again; the program does not exit as long as that read is the last thing
\* it did.
C31_FailedReadRedisplays ==
    [][ last.op = "choice_failed" => pc' = "menu" ]_vars

\* C36: prompts terminate at end of input.  As stated: once the input has
\* ended, the prompt loops and the menu loop finish and the program closes
\* the database and returns.
C36_EofTerminates ==
    (pc = "menu" /\ console.eof) ~> (pc = "off" /\ returned = <<0>>)

\* C32: db_open reports failure with a null handle.  As stated: after a
\* launch in which db_open returned false, main's db is nullptr.
C32_NullOnFailure ==
    [][ ( /\ last'.op = "launch"
          /\ last'.calls[1] = Call("db_open", FALSE) ) =>
            db'.handle = "null"
      ]_vars

\* an enrollment of mirror d whose student or course d does not hold
Orphans(d) ==
    { i \in 1..Len(d.all_grades) :
        \/ d.all_grades[i].roll_no \notin RollsOf(d.all_students)
        \/ d.all_grades[i].course_code \notin CodesOf(d.all_courses) }

\* C33: mirror referential integrity.  In the menu loop over a mirror that
\* was loaded completely, every enrollment of the mirror names a student of
\* all_students and a course of all_courses.
C33_MirrorIntegrity ==
    (pc = "menu" /\ loaded) => Orphans(data) = {}

C33_Witness ==
    /\ pc = "menu"
    /\ loaded
    /\ last.op = "delete_course"
    /\ BothOk(last, "db_delete_course", "remove_course")
    /\ Len(data.all_grades) > 0
    /\ Len(data.all_grades) < Len(seed_grades)
    /\ Orphans(data) = {}

\* C34: mirror equals store when the menu starts.  As stated: after every
\* launch that reaches the menu loop the mirror holds exactly the rows of
\* the store, whatever db_load_all returned.
C34_MirrorAtMenuStart ==
    [][ (last'.op = "launch" /\ pc' = "menu") => data' = MirrorOf(file') ]_vars

\* C35: report on a student without enrollments.  For a student of the
\* mirror with no enrollment student_report prints no line per course and no
\* aggregate line (the average is computed only for a count above 0) and says
\* that no course is enrolled; for a roll_no that is not in the mirror it
\* says that the student was not found and prints nothing else, also when
\* the mirror holds enrollments with that roll_no.
C35_ReportWithoutEnrollments ==
    report.op = "student_report" =>
        LET mine == SelectSeq(data.all_grades, LAMBDA g : g.roll_no = last.roll) IN
        /\ report.aggregate => report.n > 0
        /\ (exists_student(data, last.roll) /\ Len(mine) = 0) =>
              /\ report.found
              /\ Len(report.lines) = 0
              /\ ~report.aggregate
              /\ ~report.any
        /\ ~exists_student(data, last.roll) =>
              /\ ~report.found
              /\ Len(report.lines) = 0
              /\ ~report.aggregate
              /\ report.n = 0

C35_Witness ==
    /\ report.op = "student_report"
    /\ last.roll = "S002"
    /\ ~exists_student(data, "S002")
    /\ \E k \in 1..Len(data.all_grades) : data.all_grades[k].roll_no = "S002"
    /\ ~report.found
    /\ Len(report.lines) = 0

====
